---- MODULE Spec2Model ----
(***************************************************************************)
(* Model of kerko/extractors.py: the extraction pipeline that derives the  *)
(* fields of a search document from a Zotero item.                         *)
(*                                                                         *)
(* One call of the pipeline is one step: the caller hands an extractor a   *)
(* document, an item, the library context and a field spec                 *)
(* (extract_and_store), the extractor returns, and the caller moves on.    *)
(* Python values are tagged records; Python strings are sequences of       *)
(* one-character strings so that strip, split, lower and regex matching    *)
(* are computed, not assumed.                                              *)
(***************************************************************************)
EXTENDS Integers, Sequences, FiniteSets, TLC

VARIABLES pc, op, args, result, trace, log, document, lang, second

vars == <<pc, op, args, result, trace, log, document, lang, second>>

-----------------------------------------------------------------------------
(* Bounds of the model *)

MaxChildren == 2
MaxTransformers == 2
MaxLangEntries == 3
MaxTags == 2
MaxItemCollections == 2
MaxCreators == 2
MaxChildItems == 2

-----------------------------------------------------------------------------
(* Python values *)

None == [t |-> "none"]
Str(s) == [t |-> "str", v |-> s]
List(l) == [t |-> "list", v |-> l]
Tuple(l) == [t |-> "tuple", v |-> l]
PySet(S) == [t |-> "set", v |-> S]
Bool(b) == [t |-> "bool", v |-> b]
PyInt(i) == [t |-> "int", v |-> i]
Raised(e) == [t |-> "raise", v |-> e]

EmptyDict == <<>>

\* dict.get(key, default)
Get(d, k, default) == IF k \in DOMAIN d THEN d[k] ELSE default

\* bool(value)
Truthy(x) ==
    CASE x.t = "none" -> FALSE
      [] x.t = "bool" -> x.v
      [] x.t = "int" -> x.v # 0
      [] x.t \in {"str", "list", "tuple"} -> Len(x.v) > 0
      [] x.t = "set" -> x.v # {}
      [] OTHER -> TRUE

\* isinstance(value, Iterable) and not isinstance(value, str)
IsNonStrIterable(x) == x.t \in {"list", "tuple", "set"}

IsIterable(x) == x.t \in {"str", "list", "tuple", "set"}

-----------------------------------------------------------------------------
(* Strings *)

SP == " "

RECURSIVE LStrip(_)
LStrip(s) == IF s # <<>> /\ Head(s) = SP THEN LStrip(Tail(s)) ELSE s

RECURSIVE RStrip(_)
RStrip(s) ==
    IF s # <<>> /\ s[Len(s)] = SP THEN RStrip(SubSeq(s, 1, Len(s) - 1)) ELSE s

\* str.strip()
Strip(s) == RStrip(LStrip(s))

IsPrefix(p, s) == Len(p) <= Len(s) /\ SubSeq(s, 1, Len(p)) = p

RECURSIVE Join(_, _)
\* sep.join(parts)
Join(parts, sep) ==
    IF parts = <<>> THEN <<>>
    ELSE IF Len(parts) = 1 THEN parts[1]
    ELSE parts[1] \o sep \o Join(Tail(parts), sep)

\* All sequences over S of length at most n
SeqsUpTo(S, n) == UNION {[1..k -> S] : k \in 0..n}

-----------------------------------------------------------------------------
(* Field specs and documents *)

RECORD_SEPARATOR == <<"\\x1e">>

\* The document handed to extract_and_store: empty, or already holding
\* values under the keys in keys.
OldValue == [t |-> "encoded", by |-> "earlier", v |-> Str(<<"o", "l", "d">>)]

EmptyDoc == <<>>

DocWith(keys) == [k \in keys |-> OldValue]

\* BaseFieldSpec.encode: the spec's own encoding of one value.
spec_encode(spec, value) == [t |-> "encoded", by |-> spec.key, v |-> value]

encode_single(value, spec) == spec_encode(spec, value)

encode_multiple(value, spec) ==
    IF value.t = "set"
    THEN [t |-> "encoded_items", v |-> {spec_encode(spec, x) : x \in value.v}]
    ELSE [t |-> "encoded_list",
          v |-> [i \in 1..Len(value.v) |-> spec_encode(spec, value.v[i])]]

Encode(encode, value, spec) ==
    IF encode = "encode_multiple" THEN encode_multiple(value, spec)
    ELSE encode_single(value, spec)

\* Variant storing on truthiness ("if extracted_value:") instead of "is not None".
extract_and_store_truthy(doc, encode, extracted_value, spec) ==
    IF extracted_value.t = "raise" THEN doc
    ELSE IF Truthy(extracted_value)
         THEN (spec.key :> Encode(encode, extracted_value, spec)) @@ doc
         ELSE doc

\* Extractor.extract_and_store, given the value self.extract returned.
extract_and_store(doc, encode, extracted_value, spec) ==
    IF extracted_value.t = "raise" THEN doc   \* the exception propagates
    ELSE IF extracted_value # None
         THEN (spec.key :> Encode(encode, extracted_value, spec)) @@ doc
         ELSE doc

\* Extractor.warning
warning(cls, message, item) ==
    [extractor |-> cls, message |-> message,
     item |-> IF item = EmptyDict THEN None ELSE Get(item, "key", None)]

-----------------------------------------------------------------------------
(* Composite extractors *)

Formats == {"data", "bib"}

\* Values an item field may hold (None: the field is absent or null).
PyVals ==
    {None, Str(<<>>), Str(<<"a", "b">>), List(<<>>),
     List(<<Str(<<"x">>), Str(<<"y">>)>>), Bool(FALSE), PyInt(7)}

FieldKey(i) == "field" \o ToString(i)

\* An item whose data holds vals[i] under FieldKey(i); a None value leaves
\* the field out.
ItemOf(vals) ==
    ("key" :> Str(<<"I", "1">>)) @@
    ("data" :> [k \in {FieldKey(i) : i \in {j \in DOMAIN vals : vals[j] # None}} |->
                  vals[CHOOSE i \in DOMAIN vals : FieldKey(i) = k]])

ItemDataExtractor(key, format) ==
    [cls |-> "ItemDataExtractor", key |-> key, format |-> format]

\* ItemDataExtractor.extract
ItemDataExtractor_extract(self, item) ==
    Get(Get(item, "data", EmptyDict), self.key, None)

RECURSIVE ChainLoopNoBreak(_, _, _, _, _)
ChainLoopNoBreak(self, item, i, value, tr) ==
    IF i > Len(self.extractors) THEN [value |-> value, trace |-> tr]
    ELSE IF self.format # self.extractors[i].format
         THEN [value |-> Raised("AssertionError"), trace |-> tr]
         ELSE ChainLoopNoBreak(self, item, i + 1,
                  ItemDataExtractor_extract(self.extractors[i], item), Append(tr, i))

\* Variant of the chain that never breaks out of the loop.
ChainExtractor_extract_no_break(self, item) ==
    ChainLoopNoBreak(self, item, 1, None, <<>>)

RECURSIVE ChainLoop(_, _, _, _, _)
\* The for loop of ChainExtractor.extract from child i on.
ChainLoop(self, item, i, value, tr) ==
    IF i > Len(self.extractors) THEN [value |-> value, trace |-> tr]
    ELSE IF self.format # self.extractors[i].format
         THEN [value |-> Raised("AssertionError"), trace |-> tr]
         ELSE LET v == ItemDataExtractor_extract(self.extractors[i], item)
              IN  IF v # None
                  THEN [value |-> v, trace |-> Append(tr, i)]
                  ELSE ChainLoop(self, item, i + 1, v, Append(tr, i))

\* ChainExtractor.extract: the value and the children invoked, in order.
ChainExtractor_extract(self, item) == ChainLoop(self, item, 1, None, <<>>)

\* Variant of the accumulation step that treats strings like any iterable.
MultiAccumulate_flatten_str(values, value) ==
    IF value.t = "str" THEN values \o [i \in 1..Len(value.v) |-> Str(<<value.v[i]>>)]
    ELSE IF IsNonStrIterable(value) THEN values \o value.v
    ELSE IF Truthy(value) THEN Append(values, value)
    ELSE values

\* One iteration of MultiExtractor.extract: extend, append or skip.
MultiAccumulate(values, value) ==
    IF IsNonStrIterable(value) THEN values \o value.v
    ELSE IF Truthy(value) THEN Append(values, value)
    ELSE values

RECURSIVE MultiLoop(_, _, _, _, _)
\* The for loop of MultiExtractor.extract from child i on.
MultiLoop(self, item, i, values, tr) ==
    IF i > Len(self.extractors)
    THEN [value |-> IF values = <<>> THEN None ELSE List(values), trace |-> tr]
    ELSE IF self.format # self.extractors[i].format
         THEN [value |-> Raised("AssertionError"), trace |-> tr]
         ELSE MultiLoop(self, item, i + 1,
                  MultiAccumulate(values, ItemDataExtractor_extract(self.extractors[i], item)),
                  Append(tr, i))

\* MultiExtractor.extract
MultiExtractor_extract(self, item) == MultiLoop(self, item, 1, <<>>, <<>>)

\* The transformer callables a TransformerExtractor may be configured with.
Transformers == {"default_empty", "suffix_a", "suffix_b"}

Transformer(name, value) ==
    CASE name = "default_empty" -> IF value = None THEN Str(<<>>) ELSE value
      [] name = "suffix_a" ->
            IF value.t = "str" THEN Str(Append(value.v, "a")) ELSE value
      [] name = "suffix_b" ->
            IF value.t = "str" THEN Str(Append(value.v, "b")) ELSE value

RECURSIVE TransformLoop(_, _, _, _)
TransformLoop(transformers, i, value, tr) ==
    IF i > Len(transformers) THEN [value |-> value, trace |-> tr]
    ELSE TransformLoop(transformers, i + 1, Transformer(transformers[i], value),
                       Append(tr, transformers[i]))

\* Variant applying the transformers last to first.
apply_transformers_reversed(self, value) ==
    IF value # None \/ ~self.skip_none_value
    THEN TransformLoop([i \in 1..Len(self.transformers) |->
                           self.transformers[Len(self.transformers) + 1 - i]],
                       1, value, <<>>)
    ELSE [value |-> value, trace |-> <<>>]

\* TransformerExtractor.apply_transformers
apply_transformers(self, value) ==
    IF value # None \/ ~self.skip_none_value
    THEN TransformLoop(self.transformers, 1, value, <<>>)
    ELSE [value |-> value, trace |-> <<>>]

\* TransformerExtractor.extract
TransformerExtractor_extract(self, item) ==
    apply_transformers(self, ItemDataExtractor_extract(self.extractor, item))

-----------------------------------------------------------------------------
(* Library context: collections *)

R1 == <<"R", "1">>
R2 == <<"R", "2">>
AA == <<"A", "A">>
BB == <<"B", "B">>
CC == <<"C", "C">>
DD == <<"D", "D">>
ZZ == <<"Z", "Z">>

NoParent == <<>>

\* library_context.collections: R1 > AA > BB, R1 > CC, R2 > DD. ZZ is a key
\* that items may carry and the library does not know.
Collections ==
    (R1 :> [data |-> [name |-> <<"T", "o", "p">>, parentCollection |-> NoParent]]) @@
    (AA :> [data |-> [name |-> <<" ", "A", "l", " ">>, parentCollection |-> R1]]) @@
    (BB :> [data |-> [name |-> <<"B", "e">>, parentCollection |-> AA]]) @@
    (CC :> [data |-> [name |-> <<"G", "a">>, parentCollection |-> R1]]) @@
    (R2 :> [data |-> [name |-> <<"O", "t", "h">>, parentCollection |-> NoParent]]) @@
    (DD :> [data |-> [name |-> <<"D", "e">>, parentCollection |-> R2]])

CollectionKeys == {R1, AA, BB, CC, R2, DD, ZZ}

RECURSIVE Ancestors(_, _)
\* collections.ancestors(key): the chain of keys from the top-level collection
\* down to key itself; empty for a key the library does not know.
Ancestors(collections, key) ==
    IF key \notin DOMAIN collections THEN <<>>
    ELSE IF collections[key].data.parentCollection = NoParent THEN <<key>>
    ELSE Append(Ancestors(collections, collections[key].data.parentCollection), key)

-----------------------------------------------------------------------------
(* Library context: item type schemas *)

\* Item type, field and creator type names are atoms: the code only compares
\* them and uses them as dictionary keys. NoType stands for a missing itemType.
NoType == "<None>"

ItemTypeNames == {"book", "case", "note", "attachment", "annotation", "thesis"}

AllItemFields ==
    [book |-> <<[field |-> "title"], [field |-> "date"]>>,
     case |-> <<[field |-> "caseName"], [field |-> "date"]>>,
     note |-> <<>>,
     attachment |-> <<[field |-> "title"], [field |-> "url"]>>]

AllItemTypes ==
    [book |-> Str(<<"B", "o", "o", "k">>),
     case |-> Str(<<"C", "a", "s", "e">>),
     note |-> Str(<<"N", "o", "t", "e">>),
     attachment |-> Str(<<"A", "t", "t">>)]

AllCreatorTypes ==
    [book |-> <<[creatorType |-> "author"], [creatorType |-> "editor"]>>,
     case |-> <<[creatorType |-> "author"]>>,
     note |-> <<>>,
     attachment |-> <<>>]

\* The library context whose schema knows exactly the item types in known.
Schema(known) ==
    [item_fields |-> [t \in known |-> AllItemFields[t]],
     item_types |-> [t \in known |-> AllItemTypes[t]],
     creator_types |-> [t \in known |-> AllCreatorTypes[t]],
     collections |-> Collections]

LibraryContexts ==
    {Schema({"book", "case"}), Schema({"book", "note", "attachment"}), Schema({})}

ItemKey == Str(<<"I", "1">>)

\* Items as far as the schema extractors read them: no data at all, or data
\* with an optional itemType, title and caseName.
TitleValues == {None, Str(<<"T">>)}

\* A dictionary entry that is left out unless present.
Field(k, present, v) == IF present THEN (k :> v) ELSE EmptyDict

SchemaItems ==
    {("key" :> ItemKey)} \cup
    {("key" :> ItemKey) @@
     ("data" :> (("key" :> ItemKey) @@ Field("itemType", ty # NoType, ty)
                 @@ Field("title", ti # None, ti) @@ Field("caseName", cn # None, cn))) :
        ty \in ItemTypeNames \cup {NoType}, ti \in TitleValues, cn \in TitleValues}

ItemType(item) == Get(Get(item, "data", EmptyDict), "itemType", NoType)

\* ItemTitleExtractor.extract
ItemTitleExtractor_extract(item, library_context) ==
    LET item_data == Get(item, "data", EmptyDict)
        item_type == Get(item_data, "itemType", NoType)
        item_fields == Get(library_context.item_fields, item_type, <<>>)
    IN  IF item_type \notin {"annotation", "note"} /\ item_fields # <<>>
        THEN Get(item_data, item_fields[1].field, Str(<<>>))
        ELSE Str(<<>>)

MissingItemType(cls, item) ==
    warning(cls, <<"Missing or unknown item type", ItemType(item)>>, item)

\* Variant that warns for attachments too.
ItemTypeLabelExtractor_extract_warn_all(item, library_context) ==
    LET item_type == ItemType(item)
    IN  IF item_type # NoType /\ item_type \in DOMAIN library_context.item_types
        THEN [value |-> library_context.item_types[item_type], log |-> <<>>]
        ELSE [value |-> None,
              log |-> <<MissingItemType("ItemTypeLabelExtractor", item)>>]

\* ItemTypeLabelExtractor.extract: the value and the warnings logged.
ItemTypeLabelExtractor_extract(item, library_context) ==
    LET item_type == ItemType(item)
    IN  IF item_type # NoType /\ item_type \in DOMAIN library_context.item_types
        THEN [value |-> library_context.item_types[item_type], log |-> <<>>]
        ELSE [value |-> None,
              log |-> IF item_type # "attachment"
                      THEN <<MissingItemType("ItemTypeLabelExtractor", item)>>
                      ELSE <<>>]

\* Creators of an item: each has a lastName and, optionally, a creatorType.
CreatorKinds == {"author", "editor", "translator", NoType}

Creator(kind) ==
    IF kind = NoType THEN ("lastName" :> Str(<<"D">>))
    ELSE ("lastName" :> Str(<<"D">>)) @@ ("creatorType" :> kind)

\* An item of the given type; has_creators tells whether its data holds a
\* "creators" list.
CreatorsItem(ty, has_creators, creators) ==
    ("key" :> ItemKey) @@
    ("data" :> (("key" :> ItemKey) @@ Field("itemType", ty # NoType, ty)
                @@ Field("creators", has_creators, creators)))

\* The library creator types that some creator of the item carries.
ItemCreatorTypes(library_creator_types, creators) ==
    SelectSeq(library_creator_types,
              LAMBDA lct : \E i \in DOMAIN creators :
                  /\ "creatorType" \in DOMAIN creators[i]
                  /\ creators[i]["creatorType"] = lct.creatorType)

\* CreatorTypesExtractor.extract: the value and the warnings logged.
CreatorTypesExtractor_extract(item, library_context) ==
    LET item_type == ItemType(item)
    IN  IF item_type # NoType /\ item_type \in DOMAIN library_context.creator_types
        THEN LET creators == Get(item["data"], "creators", <<>>)
                 item_creator_types ==
                     ItemCreatorTypes(library_context.creator_types[item_type], creators)
             IN  IF item_creator_types # <<>>
                 THEN [value |-> List(item_creator_types), log |-> <<>>]
                 ELSE [value |-> None,
                       log |-> IF creators # <<>>
                               THEN <<warning("CreatorTypesExtractor",
                                              <<"Missing creator types for item type",
                                                item_type>>, item)>>
                               ELSE <<>>]
        ELSE [value |-> None,
              log |-> IF item_type # "attachment"
                      THEN <<MissingItemType("CreatorTypesExtractor", item)>>
                      ELSE <<>>]

-----------------------------------------------------------------------------
(* LanguageExtractor *)

UpperCase ==
    <<"A", "B", "C", "D", "E", "F", "G", "H", "I", "J", "K", "L", "M",
      "N", "O", "P", "Q", "R", "S", "T", "U", "V", "W", "X", "Y", "Z">>

LowerCase ==
    <<"a", "b", "c", "d", "e", "f", "g", "h", "i", "j", "k", "l", "m",
      "n", "o", "p", "q", "r", "s", "t", "u", "v", "w", "x", "y", "z">>

ToLower == [c \in {UpperCase[i] : i \in 1..26} |->
                LowerCase[CHOOSE i \in 1..26 : UpperCase[i] = c]]

ToUpper == [c \in {LowerCase[i] : i \in 1..26} |->
                UpperCase[CHOOSE i \in 1..26 : LowerCase[i] = c]]

LowerChar(c) == IF c \in DOMAIN ToLower THEN ToLower[c] ELSE c

UpperChar(c) == IF c \in DOMAIN ToUpper THEN ToUpper[c] ELSE c

IsLetter(c) == c \in DOMAIN ToLower \/ c \in DOMAIN ToUpper

\* str.lower()
Lower(s) == [i \in 1..Len(s) |-> LowerChar(s[i])]

\* str.title()
Title(s) ==
    [i \in 1..Len(s) |->
        IF i = 1 \/ ~IsLetter(s[i - 1]) THEN UpperChar(s[i]) ELSE LowerChar(s[i])]

\* str.replace(old, new) for one-character strings
Replace(s, old, new) == [i \in 1..Len(s) |-> IF s[i] = old THEN new ELSE s[i]]

RECURSIVE SplitLoop(_, _, _, _)
SplitLoop(s, seps, current, max) ==
    IF s = <<>> THEN <<current>>
    ELSE IF Head(s) \in seps /\ max # 0
         THEN <<current>> \o SplitLoop(Tail(s), seps, <<>>, max - 1)
         ELSE SplitLoop(Tail(s), seps, Append(current, Head(s)), max)

\* re.split on a pattern matching one character of seps; max < 0: no maxsplit.
Split(s, seps, max) == SplitLoop(s, seps, <<>>, max)

\* The pycountry language database (the entries the model draws on).
Languages ==
    {[alpha_3 |-> <<"e", "n", "g">>, alpha_2 |-> <<"e", "n">>, bibliographic |-> <<>>,
      name |-> <<"E", "n", "g", "l", "i", "s", "h">>],
     [alpha_3 |-> <<"f", "r", "a">>, alpha_2 |-> <<"f", "r">>,
      bibliographic |-> <<"f", "r", "e">>, name |-> <<"F", "r", "e", "n", "c", "h">>],
     [alpha_3 |-> <<"d", "e", "u">>, alpha_2 |-> <<"d", "e">>,
      bibliographic |-> <<"g", "e", "r">>, name |-> <<"G", "e", "r", "m", "a", "n">>]}

NoMatch == [alpha_3 |-> <<>>, alpha_2 |-> <<>>, bibliographic |-> <<>>, name |-> <<>>]

\* pycountry.languages.get(field=value): case-insensitive, None when not found.
LanguagesGet(field, value) ==
    LET key == Lower(value)
    IN  IF \E l \in Languages : l[field] # <<>> /\ Lower(l[field]) = key
        THEN CHOOSE l \in Languages : l[field] # <<>> /\ Lower(l[field]) = key
        ELSE NoMatch

\* Locales (language part) that have an iso639-3 catalog in pycountry.
CatalogLanguages == {<<"f", "r">>}

\* translations.gettext(name) of the catalog loaded.
Gettext(catalog, name) ==
    CASE name = <<"E", "n", "g", "l", "i", "s", "h">> -> <<"a", "n", "g", "l", "a", "i", "s">>
      [] name = <<"F", "r", "e", "n", "c", "h">> -> <<"f", "r", "a", "n", "c", "a", "i", "s">>
      [] name = <<"G", "e", "r", "m", "a", "n">> -> <<"a", "l", "l", "e", "m", "a", "n", "d">>
      [] OTHER -> name

\* Variant that translates with the catalog only in the call that loads it.
translate_language_uncached(self, name) ==
    LET locale == Replace(self.locale, "-", "_")
        language == Strip(Split(locale, {"_"}, 1)[1])
        load == ~self.translations_initialized /\ language # <<"e", "n">>
        found == language \in CatalogLanguages
    IN  [label |-> IF load /\ found THEN Gettext("catalog", name) ELSE name,
         self |-> [self EXCEPT !.translations_initialized = TRUE],
         log |-> IF load /\ ~found
                 THEN <<warning("LanguageExtractor",
                                <<"No language translations found in pycountry for locale",
                                  locale>>, EmptyDict)>>
                 ELSE <<>>]

\* Variant that marks the translations initialized only when the load succeeds.
translate_language_retry(self, name) ==
    LET locale == Replace(self.locale, "-", "_")
        language == Strip(Split(locale, {"_"}, 1)[1])
        load == ~self.translations_initialized /\ language # <<"e", "n">>
        found == language \in CatalogLanguages
        after == [self EXCEPT !.translations_initialized = found \/ ~load,
                              !.translations = IF load /\ found THEN "catalog" ELSE @]
    IN  [label |-> IF after.translations # "None"
                   THEN Gettext(after.translations, name) ELSE name,
         self |-> after,
         log |-> IF load /\ ~found
                 THEN <<warning("LanguageExtractor",
                                <<"No language translations found in pycountry for locale",
                                  locale>>, EmptyDict)>>
                 ELSE <<>>]

\* LanguageExtractor.translate_language: the label, the extractor afterwards
\* and the warnings logged.
translate_language(self, name) ==
    LET locale == Replace(self.locale, "-", "_")
        language == Strip(Split(locale, {"_"}, 1)[1])
        load == ~self.translations_initialized /\ language # <<"e", "n">>
        found == language \in CatalogLanguages
        after == [self EXCEPT !.translations_initialized = TRUE,
                              !.translations = IF load /\ found THEN "catalog" ELSE @]
    IN  [label |-> IF after.translations # "None"
                   THEN Gettext(after.translations, name) ELSE name,
         self |-> after,
         log |-> IF load /\ ~found
                 THEN <<warning("LanguageExtractor",
                                <<"No language translations found in pycountry for locale",
                                  locale>>, EmptyDict)>>
                 ELSE <<>>]

\* The language database lookup of normalize_language.
MatchLanguage(value) ==
    LET lang_ == Split(value, {"-", "_"}, 1)[1]
    IN  IF Len(lang_) = 3
        THEN IF LanguagesGet("alpha_3", lang_) # NoMatch
             THEN LanguagesGet("alpha_3", lang_)
             ELSE LanguagesGet("bibliographic", lang_)
        ELSE IF Len(lang_) = 2 THEN LanguagesGet("alpha_2", lang_)
        ELSE LanguagesGet("name", value)

\* Variant without the "value and" guard of the invalid-value branch.
normalize_language_keep_empty(self, raw) ==
    LET value == Strip(raw)
        match == MatchLanguage(value)
        tr == translate_language(self, match.name)
    IN  IF match # NoMatch
        THEN [value |-> Tuple(<<Str(match.alpha_3), Str(tr.label)>>),
              self |-> tr.self, log |-> tr.log]
        ELSE IF self.allow_invalid
        THEN [value |-> Tuple(<<Str(Lower(value)), Str(Title(value))>>),
              self |-> self, log |-> <<>>]
        ELSE [value |-> None, self |-> self, log |-> <<>>]

\* LanguageExtractor.normalize_language (normalize_invalid is str.title)
normalize_language(self, raw) ==
    LET value == Strip(raw)
        match == MatchLanguage(value)
        tr == translate_language(self, match.name)
    IN  IF match # NoMatch
        THEN [value |-> Tuple(<<Str(match.alpha_3), Str(tr.label)>>),
              self |-> tr.self, log |-> tr.log]
        ELSE IF value # <<>> /\ self.allow_invalid
        THEN [value |-> Tuple(<<Str(Lower(value)), Str(Title(value))>>),
              self |-> self, log |-> <<>>]
        ELSE [value |-> None, self |-> self, log |-> <<>>]

RECURSIVE NormalizeAll(_, _, _, _, _)
\* [self.normalize_language(value) for value in values], from value i on.
NormalizeAll(self, values, i, out, lg) ==
    IF i > Len(values) THEN [values |-> out, self |-> self, log |-> lg]
    ELSE LET r == normalize_language(self, values[i])
         IN  NormalizeAll(r.self, values, i + 1, Append(out, r.value), lg \o r.log)

\* [(value.strip(), value.strip()) for value in values if value]
VerbatimAll(values) ==
    LET kept == SelectSeq(values, LAMBDA value : value # <<>>)
    IN  [i \in DOMAIN kept |-> Tuple(<<Str(Strip(kept[i])), Str(Strip(kept[i]))>>)]

RECURSIVE FromKeys(_, _)
\* dict.fromkeys(values).keys(): first occurrences, in order.
FromKeys(values, seen) ==
    IF values = <<>> THEN <<>>
    ELSE IF \E i \in DOMAIN seen : seen[i] = Head(values)
         THEN FromKeys(Tail(values), seen)
         ELSE <<Head(values)>> \o FromKeys(Tail(values), Append(seen, Head(values)))

\* Variant that keeps duplicates.
Deduplicate_keep_all(values) == SelectSeq(values, LAMBDA value : Truthy(value))

\* [value for value in dict.fromkeys(values).keys() if value]
Deduplicate(values) == SelectSeq(FromKeys(values, <<>>), LAMBDA value : Truthy(value))

\* LanguageExtractor.extract: the value, the extractor afterwards, the warnings.
LanguageExtractor_extract(self, item) ==
    LET field == Get(Get(item, "data", EmptyDict), "language", Str(<<>>))
        values == Split(field.v, {self.values_separator}, -1)
        n == IF self.normalize THEN NormalizeAll(self, values, 1, <<>>, <<>>)
             ELSE [values |-> VerbatimAll(values), self |-> self, log |-> <<>>]
        kept == Deduplicate(n.values)
    IN  [value |-> IF kept = <<>> THEN None ELSE List(kept),
         self |-> n.self, log |-> n.log]

\* The entries a language field is made of.
LangEntries ==
    {<<"e", "n", "g">>, <<"E", "N", "-", "u", "s">>, <<"f", "r", "e">>,
     <<" ", "f", "r">>, <<>>, <<"x", "x">>, <<"F", "r", "e", "n", "c", "h">>}

\* Items as far as the language extractor reads them: no data, data without
\* a language, or a language field of separator-delimited entries.
LanguageItem(has_data, has_language, entries) ==
    ("key" :> ItemKey) @@
    Field("data", has_data,
          ("key" :> ItemKey) @@
          Field("language", has_language, Str(Join(entries, <<";">>))))

-----------------------------------------------------------------------------
(* Collection extractors *)

\* Items as far as the collection extractors read them.
CollectionsItem(has_collections, collection_keys) ==
    ("key" :> ItemKey) @@
    ("data" :> (("key" :> ItemKey) @@
                Field("collections", has_collections, collection_keys)))

\* Variant yielding the whole path only.
_expand_paths_whole(path) == IF path = <<>> THEN <<>> ELSE <<path>>

\* _expand_paths
_expand_paths(path) == [i \in 1..Len(path) |-> SubSeq(path, 1, i)]

\* The pairs one item collection adds to encoded_ancestors.
FacetPairs(collections, collection_key, spec) ==
    IF collection_key \notin DOMAIN collections THEN {}
    ELSE LET ancestors == Ancestors(collections, collection_key)
         IN  IF Len(ancestors) <= 1 \/ ancestors[1] # spec.collection_key THEN {}
             ELSE LET paths == _expand_paths(Tail(ancestors))
                  IN  {Tuple(<<Tuple(paths[i]),
                               Str(Strip(IF paths[i][Len(paths[i])] \in DOMAIN collections
                                         THEN collections[paths[i][Len(paths[i])]].data.name
                                         ELSE <<>>))>>) : i \in DOMAIN paths}

\* CollectionFacetTreeExtractor.extract
CollectionFacetTreeExtractor_extract(item, library_context, spec) ==
    LET item_collections == Get(Get(item, "data", EmptyDict), "collections", <<>>)
        encoded_ancestors ==
            UNION {FacetPairs(library_context.collections, item_collections[i], spec) :
                      i \in DOMAIN item_collections}
    IN  IF encoded_ancestors = {} THEN None ELSE PySet(encoded_ancestors)

RECURSIVE Chain(_)
\* list(itertools.chain(*iterables)); a str iterates over its characters.
Chain(iterables) ==
    IF iterables = <<>> THEN <<>>
    ELSE (IF Head(iterables).t = "str"
          THEN [i \in 1..Len(Head(iterables).v) |-> <<Head(iterables).v[i]>>]
          ELSE Head(iterables).v) \o Chain(Tail(iterables))

\* InCollectionExtractor.extract
InCollectionExtractor_extract(self, item, library_context) ==
    LET collection_keys == Get(Get(item, "data", EmptyDict), "collections", <<>>)
        item_collections ==
            Chain([i \in DOMAIN collection_keys |->
                      IF self.check_subcollections
                      THEN List(Ancestors(library_context.collections, collection_keys[i]))
                      ELSE Str(collection_keys[i])])
        is_in == \E i \in DOMAIN item_collections : item_collections[i] = self.collection_key
    IN  IF ~self.true_only THEN Bool(is_in)
        ELSE IF is_in THEN Bool(TRUE)
        ELSE None

-----------------------------------------------------------------------------
(* Tags *)

s_public == <<"p", "u", "b", "l", "i", "c">>
s_internal == <<"i", "n", "t", "e", "r", "n", "a", "l">>
s_public_internal == s_public \o <<"-">> \o s_internal
s_public_release == s_public \o <<"-", "r", "e", "l", "e", "a", "s", "e">>
s_public_internal_draft == s_public_internal \o <<"-", "d", "r", "a", "f", "t">>
s_notpublic == <<"n", "o", "t">> \o s_public

\* The regular expressions of the model: a literal, optionally anchored by "^".
Literal(pattern) == IF pattern # <<>> /\ Head(pattern) = "^" THEN Tail(pattern) ELSE pattern

\* Variant matching anywhere in the string (re.search).
ReSearch(pattern, string) ==
    IF pattern # <<>> /\ Head(pattern) = "^" THEN IsPrefix(Tail(pattern), string)
    ELSE \E i \in 1..(Len(string) + 1) :
            IsPrefix(pattern, SubSeq(string, i, Len(string)))

\* re.compile(pattern).match(string): a match at the start of the string.
ReMatch(pattern, string) == IsPrefix(Literal(pattern), string)

IncludePatterns == {<<>>, <<"^">> \o s_public, s_public}
ExcludePatterns == {<<>>, <<"^">> \o s_public_internal, s_internal}

\* The entries of an item's tags list; NoTag: an entry without a "tag" key.
NoTag == <<"<", ">">>

TagPool ==
    {s_public_release, s_public_internal_draft, <<" ">> \o s_public_release \o <<" ">>,
     <<" ", " ">>, s_notpublic, NoTag}

TagData(tag) == IF tag = NoTag THEN [type |-> 0] ELSE [type |-> 0, tag |-> tag]

TagsItem(has_tags, tags) ==
    ("key" :> ItemKey) @@
    ("data" :> (("key" :> ItemKey) @@
                Field("tags", has_tags, [i \in DOMAIN tags |-> TagData(tags[i])])))

\* BaseTagsExtractor.extract (self.include / self.exclude: "" when not set)
BaseTagsExtractor_extract(self, item) ==
    LET tags_data == Get(Get(item, "data", EmptyDict), "tags", <<>>)
        tag(i) == Strip(IF "tag" \in DOMAIN tags_data[i] THEN tags_data[i].tag ELSE <<>>)
        tags == {tag(i) : i \in {j \in DOMAIN tags_data :
                    /\ tag(j) # <<>>
                    /\ self.include = <<>> \/ ReMatch(self.include, tag(j))
                    /\ self.exclude = <<>> \/ ~ReMatch(self.exclude, tag(j))}}
    IN  IF tags = {} THEN None ELSE PySet({Str(t) : t \in tags})

-----------------------------------------------------------------------------
(* Dates *)

Digits == <<"0", "1", "2", "3", "4", "5", "6", "7", "8", "9">>

IsDigit(c) == \E i \in 1..10 : Digits[i] = c

DigitVal(c) == (CHOOSE i \in 1..10 : Digits[i] = c) - 1

RECURSIVE ParseInt(_)
\* int(s) for a string of decimal digits.
ParseInt(s) ==
    IF s = <<>> THEN 0
    ELSE 10 * ParseInt(SubSeq(s, 1, Len(s) - 1)) + DigitVal(s[Len(s)])

RECURSIVE IntToStr(_)
\* str(n) for n >= 0.
IntToStr(n) ==
    IF n < 10 THEN <<Digits[n + 1]>>
    ELSE Append(IntToStr(n \div 10), Digits[(n % 10) + 1])

\* Variant of the formatting that does not pad.
ZeroPad_unpadded(n, w) == IntToStr(n)

\* f"{n:0wd}" for n >= 0: at least w digits, padded with zeros on the left.
ZeroPad(n, w) ==
    LET digits == IntToStr(n)
    IN  IF Len(digits) >= w THEN digits
        ELSE [i \in 1..w |-> IF i <= w - Len(digits) THEN "0"
                             ELSE digits[i - (w - Len(digits))]]

AllDigits(s) == \A i \in DOMAIN s : IsDigit(s[i])

\* Value of a date component the text does not have.
LowestValid == 1

\* kerko.datetime.parse_partial_date: (year, month, day) of a text of the form
\* YYYY, YYYY-MM or YYYY-MM-DD; a missing month or day takes the lowest valid
\* value, and a text that holds no year gives the year no_year.
parse_partial_date(text, no_year) ==
    LET has_year == Len(text) >= 4 /\ AllDigits(SubSeq(text, 1, 4))
        has_month == /\ has_year /\ Len(text) >= 7 /\ text[5] = "-"
                     /\ AllDigits(SubSeq(text, 6, 7))
        has_day == /\ has_month /\ Len(text) >= 10 /\ text[8] = "-"
                   /\ AllDigits(SubSeq(text, 9, 10))
    IN  [year |-> IF has_year THEN ParseInt(SubSeq(text, 1, 4)) ELSE no_year,
         month |-> IF has_month THEN ParseInt(SubSeq(text, 6, 7)) ELSE LowestValid,
         day |-> IF has_day THEN ParseInt(SubSeq(text, 9, 10)) ELSE LowestValid]

\* The years a text without a year may be parsed to.
NoYears == {0, 1}

\* The environment of a date extraction: the library context, and with it
\* what the partial-date parser of the run makes of a text without a year.
DateContext(no_year) == ("no_year" :> no_year) @@ Schema({})

\* The parsedDate values of the items ("" is a date Zotero could not parse).
ParsedDates ==
    {<<>>,
     <<"2", "0", "2", "3", "-", "0", "5", "-", "1", "4">>,
     <<"1", "9", "9", "9">>,
     <<"1", "9", "9", "9", "-", "0", "7">>,
     <<"0", "9", "8", "7", "-", "1", "2", "-", "3", "1">>,
     <<"2", "0", "0", "0", "-", "0", "1", "-", "0", "1">>,
     <<"0", "0", "0", "5">>}

\* Items as far as the date extractors read them: no meta, meta without a
\* parsedDate, or a parsedDate.
DateItem(has_meta, has_parsed_date, parsed_date) ==
    ("key" :> ItemKey) @@
    Field("meta", has_meta, Field("parsedDate", has_parsed_date, Str(parsed_date)))

ParsedDateOf(item) == Get(Get(item, "meta", EmptyDict), "parsedDate", Str(<<>>)).v

\* The facet path of a year, given its decade.
YearPaths(year, decade) ==
    LET century == (year \div 100) * 100
        paths == _expand_paths(<<Str(IntToStr(century)), Str(IntToStr(decade)),
                                 Str(IntToStr(year))>>)
    IN  List([i \in DOMAIN paths |-> List(paths[i])])

\* Variant that rounds the year to the nearest decade.
YearFacetExtractor_extract_nearest(item, library_context) ==
    LET parsed_date == ParsedDateOf(item)
    IN  IF parsed_date # <<>>
        THEN LET year == parse_partial_date(parsed_date, library_context.no_year).year
             IN  YearPaths(year, ((year + 5) \div 10) * 10)
        ELSE None

\* YearFacetExtractor.extract
YearFacetExtractor_extract(item, library_context) ==
    LET parsed_date == ParsedDateOf(item)
    IN  IF parsed_date # <<>>
        THEN LET year == parse_partial_date(parsed_date, library_context.no_year).year
             IN  YearPaths(year, (year \div 10) * 10)
        ELSE None

\* SortDateExtractor.extract
SortDateExtractor_extract(item, library_context) ==
    LET d == parse_partial_date(ParsedDateOf(item), library_context.no_year)
    IN  PyInt(ParseInt(ZeroPad(d.year, 4) \o ZeroPad(d.month, 2) \o ZeroPad(d.day, 2)))

-----------------------------------------------------------------------------
(* Creators *)

RECURSIVE StripTagsLoop(_, _)
StripTagsLoop(s, in_tag) ==
    IF s = <<>> THEN <<>>
    ELSE IF in_tag THEN StripTagsLoop(Tail(s), Head(s) # ">")
    ELSE IF Head(s) = "<" THEN StripTagsLoop(Tail(s), TRUE)
    ELSE <<Head(s)>> \o StripTagsLoop(Tail(s), FALSE)

\* kerko.richtext.richtext_striptags: the text without its markup tags.
richtext_striptags(s) == StripTagsLoop(s, FALSE)

\* markupsafe.Markup(s).striptags(): tags removed, whitespace runs collapsed
\* to single spaces and trimmed.
MarkupStripTags(s) ==
    Join(SelectSeq(Split(StripTagsLoop(s, FALSE), {SP}, -1), LAMBDA w : w # <<>>), <<SP>>)

s_Jane == <<"J", "a", "n", "e">>
s_Doe == <<"D", "o", "e">>
s_Roe_markup == <<" ", "<", "i", ">", "R", "o", "e", "<", "/", "i", ">", " ">>
s_Al == <<"A", "l">>
s_ACME == <<"A", "C", "M", "E">>

\* A creator: firstName, lastName and name as given (NoTag: the key is left
\* out), and its creator type (NoType: left out).
Person(first, last, name, kind) ==
    Field("firstName", first # NoTag, Str(first)) @@
    Field("lastName", last # NoTag, Str(last)) @@
    Field("name", name # NoTag, Str(name)) @@
    Field("creatorType", kind # NoType, kind)

\* The creators the items are made of (before their creator type is chosen).
People ==
    {<<s_Jane, s_Doe, NoTag>>, <<s_Jane, s_Doe, s_ACME>>, <<NoTag, NoTag, s_ACME>>,
     <<s_Al, <<>>, <<>>>>, <<NoTag, s_Roe_markup, NoTag>>, <<<<>>, <<>>, NoTag>>,
     <<s_Al, s_Roe_markup, <<>>>>}

\* Variant that leaves out the inverted "last, first" form.
CreatorEntries_no_inverted(creator) ==
    LET fullname == Get(creator, "name", Str(<<>>)).v
        firstname == Strip(richtext_striptags(Get(creator, "firstName", Str(<<>>)).v))
        lastname == Strip(richtext_striptags(Get(creator, "lastName", Str(<<>>)).v))
    IN  (IF fullname # <<>> THEN <<Strip(richtext_striptags(fullname))>> ELSE <<>>) \o
        (IF firstname # <<>> /\ lastname # <<>>
         THEN <<firstname \o <<SP>> \o lastname>>
         ELSE IF firstname # <<>> THEN <<firstname>>
         ELSE IF lastname # <<>> THEN <<lastname>>
         ELSE <<>>)

\* One iteration of the loop of CreatorsExtractor.extract: the entries one
\* creator appends.
CreatorEntries(creator) ==
    LET fullname == Get(creator, "name", Str(<<>>)).v
        firstname == Strip(richtext_striptags(Get(creator, "firstName", Str(<<>>)).v))
        lastname == Strip(richtext_striptags(Get(creator, "lastName", Str(<<>>)).v))
    IN  (IF fullname # <<>> THEN <<Strip(richtext_striptags(fullname))>> ELSE <<>>) \o
        (IF firstname # <<>> /\ lastname # <<>>
         THEN <<firstname \o <<SP>> \o lastname, lastname \o <<",", SP>> \o firstname>>
         ELSE IF firstname # <<>> THEN <<firstname>>
         ELSE IF lastname # <<>> THEN <<lastname>>
         ELSE <<>>)

RECURSIVE Concat(_)
\* The concatenation of a sequence of sequences.
Concat(seqs) == IF seqs = <<>> THEN <<>> ELSE Head(seqs) \o Concat(Tail(seqs))

\* CreatorsExtractor.extract
CreatorsExtractor_extract(item) ==
    LET item_creators == Get(Get(item, "data", EmptyDict), "creators", <<>>)
        creators == Concat([i \in DOMAIN item_creators |-> CreatorEntries(item_creators[i])])
    IN  IF creators # <<>> THEN Str(Join(creators, RECORD_SEPARATOR)) ELSE None

\* kerko.text.sort_normalize: case folding (the model's texts are ASCII).
sort_normalize(s) == Lower(s)

\* _prepare_sort_text
_prepare_sort_text(text) == sort_normalize(MarkupStripTags(text))

s_zzz == <<" ", "z", "z", "z", " ">>
s_zzzzzz == <<" ", "z", "z", "z", "z", "z", "z", " ">>

\* LibraryContext.get_creator_types: the creator types of the item's type, in
\* schema order; none for an unknown or missing item type.
get_creator_types(library_context, item_data) ==
    LET item_type == Get(item_data, "itemType", NoType)
    IN  IF item_type \in DOMAIN library_context.creator_types
        THEN library_context.creator_types[item_type] ELSE <<>>

\* append_creator: the entry of one creator.
append_creator(creator) ==
    LET creator_parts == <<_prepare_sort_text(Get(creator, "lastName", Str(<<>>)).v),
                           _prepare_sort_text(Get(creator, "firstName", Str(<<>>)).v),
                           _prepare_sort_text(Get(creator, "name", Str(<<>>)).v)>>
    IN  Join(SelectSeq(creator_parts, LAMBDA part : part # <<>>), s_zzz)

\* The entries of the creators of one creator type, in item order.
CreatorsOfType(item_creators, creator_type) ==
    LET matching == SelectSeq(item_creators,
                        LAMBDA creator : Get(creator, "creatorType", "") = creator_type.creatorType)
    IN  [i \in DOMAIN matching |-> append_creator(matching[i])]

RECURSIVE SortCreatorLoop_no_break(_, _, _, _)
\* Variant of the loop that goes on to the lesser creator types.
SortCreatorLoop_no_break(creator_types, item_creators, i, creators) ==
    IF i > Len(creator_types) THEN creators
    ELSE SortCreatorLoop_no_break(creator_types, item_creators, i + 1,
             creators \o CreatorsOfType(item_creators, creator_types[i]))

RECURSIVE SortCreatorLoop(_, _, _, _)
\* The outer loop of SortCreatorExtractor.extract from creator type i on.
SortCreatorLoop(creator_types, item_creators, i, creators) ==
    IF i > Len(creator_types) THEN creators
    ELSE LET found == creators \o CreatorsOfType(item_creators, creator_types[i])
         IN  IF found # <<>> THEN found
             ELSE SortCreatorLoop(creator_types, item_creators, i + 1, found)

\* SortCreatorExtractor.extract
SortCreatorExtractor_extract(item, library_context) ==
    LET item_data == Get(item, "data", EmptyDict)
    IN  Str(Join(SortCreatorLoop(get_creator_types(library_context, item_data),
                                 Get(item_data, "creators", <<>>), 1, <<>>),
                 s_zzzzzz))

\* The creators the sort key is computed from, with their creator types.
SortPeople ==
    {Person(p[1], p[2], p[3], kind) :
        p \in {<<NoTag, NoTag, s_ACME>>, <<s_Al, s_Roe_markup, <<>>>>,
               <<<<>>, <<>>, NoTag>>},
        kind \in {"author", "editor", NoType}}

-----------------------------------------------------------------------------
(* Child items: attachments and notes *)

\* Link modes are atoms and content types one-token strings: the code only
\* compares them.
PDF == Str(<<"application/pdf">>)
HTML == Str(<<"text/html">>)

s_note_body == <<"<", "p", ">", "H", "i", "<", "/", "p", ">">>
s_fulltext == <<"<", "b", ">", "F", "u", "l", "l", "<", "/", "b", ">", " ", " ", "t">>
s_url == <<"h", "t", "t", "p", ":", "/", "/", "x">>

\* A child item with the given key and data.
ChildItem(key, data) ==
    ("key" :> Str(key)) @@ ("data" :> (("key" :> Str(key)) @@ data))

PublicTag == ("tags" :> <<TagData(s_public)>>)

\* The children the items are made of: notes with and without a body, stored
\* files with and without full text, links with and without a URL.
ChildPool ==
    {ChildItem(<<"N", "1">>, [itemType |-> "note", note |-> Str(s_note_body)] @@ PublicTag),
     ChildItem(<<"N", "2">>, [itemType |-> "note", note |-> Str(<<>>)]),
     ChildItem(<<"A", "1">>, [itemType |-> "attachment", linkMode |-> "imported_file",
                              contentType |-> PDF, filename |-> Str(<<"f">>)] @@ PublicTag)
         @@ ("fulltext" :> Str(s_fulltext)),
     ChildItem(<<"A", "2">>, [itemType |-> "attachment", linkMode |-> "imported_url",
                              contentType |-> HTML]),
     ChildItem(<<"A", "3">>, [itemType |-> "attachment", linkMode |-> "linked_url",
                              url |-> Str(s_url)]),
     ChildItem(<<"A", "4">>, [itemType |-> "attachment", linkMode |-> "linked_url"]
                             @@ PublicTag)}

\* Items as far as the child extractors read them.
ChildrenItem(has_children, children) ==
    ("key" :> ItemKey) @@ Field("children", has_children, children)

\* is_file_attachment (mime_types: a set, empty for None)
is_file_attachment(item, mime_types) ==
    LET data == Get(item, "data", EmptyDict)
    IN  /\ data # EmptyDict
        /\ Truthy(Get(data, "key", None))
        /\ Get(data, "linkMode", NoType) \in {"imported_file", "imported_url"}
        /\ ~(mime_types # {} /\ Get(data, "contentType", Str(<<"octet-stream">>)) \notin mime_types)

\* is_link_attachment
is_link_attachment(item) ==
    LET data == Get(item, "data", EmptyDict)
    IN  /\ data # EmptyDict
        /\ Truthy(Get(data, "key", None))
        /\ Get(data, "linkMode", NoType) = "linked_url"
        /\ Truthy(Get(data, "url", None))

\* kerko.tags.TagGate.check: the item has a tag matching the include pattern,
\* if there is one, and none matching the exclude pattern, if there is one.
TagGate_check(gate, data) ==
    LET tags == Get(data, "tags", <<>>)
        some(pattern) == \E i \in DOMAIN tags : ReMatch(pattern, tags[i].tag)
    IN  /\ gate.include = <<>> \/ some(gate.include)
        /\ gate.exclude = <<>> \/ ~some(gate.exclude)

\* The tag gates the child extractors are configured with.
TagGates == {[include |-> <<>>, exclude |-> <<>>],
             [include |-> <<"^">> \o s_public, exclude |-> <<>>]}

\* BaseChildrenExtractor.extract: the accepted children, <<>> standing for None
\* (the callers only test the result's truth value).
BaseChildrenExtractor_extract(self, item) ==
    SelectSeq(Get(item, "children", <<>>),
              LAMBDA child :
                  /\ Get(Get(child, "data", EmptyDict), "itemType", NoType) = self.item_type
                  /\ TagGate_check(self.gate, Get(child, "data", EmptyDict)))

\* dict.get(k) of a child's data: None when the key is missing.
DataGet(child, k) == Get(child["data"], k, None)

\* ChildFileAttachmentsExtractor.extract
ChildFileAttachmentsExtractor_extract(self, item) ==
    LET children == BaseChildrenExtractor_extract(self, item)
        files == SelectSeq(children, LAMBDA child : is_file_attachment(child, self.mime_types))
    IN  IF children # <<>>
        THEN List([i \in DOMAIN files |->
                      [id |-> files[i]["key"],
                       data |-> [contentType |-> DataGet(files[i], "contentType"),
                                 filename |-> DataGet(files[i], "filename"),
                                 md5 |-> DataGet(files[i], "md5"),
                                 mtime |-> DataGet(files[i], "mtime")]]])
        ELSE None

\* ChildLinkedURIAttachmentsExtractor.extract
ChildLinkedURIAttachmentsExtractor_extract(self, item) ==
    LET children == BaseChildrenExtractor_extract(self, item)
        links == SelectSeq(children, is_link_attachment)
    IN  IF children # <<>>
        THEN List([i \in DOMAIN links |->
                      [title |-> Get(links[i]["data"], "title", DataGet(links[i], "url")),
                       url |-> DataGet(links[i], "url")]])
        ELSE None

\* ChildAttachmentsFulltextExtractor.extract
ChildAttachmentsFulltextExtractor_extract(self, item) ==
    LET children == BaseChildrenExtractor_extract(self, item)
        texts == SelectSeq(children,
                     LAMBDA child : /\ is_file_attachment(child, self.mime_types)
                                    /\ Truthy(Get(child, "fulltext", None)))
    IN  IF children # <<>>
        THEN Str(Join([i \in DOMAIN texts |-> MarkupStripTags(texts[i]["fulltext"].v)],
                      RECORD_SEPARATOR))
        ELSE None

\* The accepted notes that have a body.
NotesWithBody(children) ==
    SelectSeq(children, LAMBDA child : Truthy(Get(Get(child, "data", EmptyDict), "note", None)))

\* ChildNotesTextExtractor.extract
ChildNotesTextExtractor_extract(self, item) ==
    LET children == BaseChildrenExtractor_extract(self, item)
        notes == NotesWithBody(children)
    IN  IF children # <<>>
        THEN Str(Join([i \in DOMAIN notes |-> MarkupStripTags(notes[i]["data"]["note"].v)],
                      RECORD_SEPARATOR))
        ELSE None

\* RawChildNotesExtractor.extract
RawChildNotesExtractor_extract(self, item) ==
    LET children == BaseChildrenExtractor_extract(self, item)
        notes == NotesWithBody(children)
    IN  IF children # <<>>
        THEN List([i \in DOMAIN notes |-> notes[i]["data"]["note"]])
        ELSE None

-----------------------------------------------------------------------------
(* The pipeline: state and steps *)

\* The LanguageExtractor instance of the run, as __init__ leaves it.
Locales == {<<"e", "n", "-", "U", "S">>, <<"f", "r">>, <<"x", "x">>}

LanguageExtractors ==
    [cls : {"LanguageExtractor"}, values_separator : {";"}, normalize : BOOLEAN,
     locale : Locales, allow_invalid : BOOLEAN,
     translations : {"None"}, translations_initialized : {FALSE}]

NoArgs == [none |-> TRUE]

Init ==
    /\ pc = "idle"
    /\ op = "none"
    /\ args = NoArgs
    /\ result = None
    /\ trace = <<>>
    /\ log = <<>>
    /\ document = EmptyDoc
    /\ lang \in LanguageExtractors
    /\ second = NoArgs

\* The caller's view of one completed extract_and_store(doc, item, context, spec)
\* on the extractor self, whose extract produced r = [value, trace] and logged lg.
Called(cls, self, item, context, spec, doc, encode, r, lg) ==
    /\ pc' = "done"
    /\ op' = cls
    /\ args' = [self |-> self, item |-> item, library_context |-> context,
                spec |-> spec, document |-> doc, encode |-> encode]
    /\ result' = r.value
    /\ trace' = r.trace
    /\ log' = lg
    /\ document' = extract_and_store(doc, encode, r.value, spec)
    /\ second' = NoArgs

\* The documents a field may be stored into: a fresh one, or one that already
\* holds this field and another one.
PriorDocs(spec) == {EmptyDoc, DocWith({spec.key, "id"})}

\* encode_multiple iterates over the value: it is configured on extractors
\* whose values are iterables.
Encodable(encode, value) == encode = "encode_multiple" => IsIterable(value)

\* extract_and_store on an ItemDataExtractor.
ItemDataStore ==
    /\ pc = "idle"
    /\ \E v \in PyVals, encode \in {"encode_single", "encode_multiple"} :
      LET self == ItemDataExtractor(FieldKey(1), "data")
          item == ItemOf(<<v>>)
          spec == [key |-> "z_field"]
      IN  /\ Encodable(encode, v) \/ v = None
          /\ \E doc \in PriorDocs(spec) :
                Called("ItemDataExtractor", self, item, Schema({}), spec, doc, encode,
                       [value |-> ItemDataExtractor_extract(self, item), trace |-> <<>>],
                       <<>>)
          /\ UNCHANGED lang

\* The children of a composite: ItemDataExtractors reading distinct fields.
Children(fmts) == [i \in DOMAIN fmts |-> ItemDataExtractor(FieldKey(i), fmts[i])]

\* extract_and_store on a ChainExtractor (default format and encode).
ChainStore ==
    /\ pc = "idle"
    /\ \E n \in 0..MaxChildren :
      \E vals \in [1..n -> PyVals], fmts \in [1..n -> Formats] :
        LET self == [cls |-> "ChainExtractor", format |-> "data",
                     extractors |-> Children(fmts)]
            item == ItemOf(vals)
            spec == [key |-> "z_chain"]
        IN  /\ \E doc \in PriorDocs(spec) :
                  Called("ChainExtractor", self, item, Schema({}), spec, doc, "encode_single",
                         ChainExtractor_extract(self, item), <<>>)
            /\ UNCHANGED lang

\* extract_and_store on a MultiExtractor (default format and encode).
MultiStore ==
    /\ pc = "idle"
    /\ \E n \in 0..MaxChildren :
      \E vals \in [1..n -> PyVals], fmts \in [1..n -> Formats] :
        LET self == [cls |-> "MultiExtractor", format |-> "data",
                     extractors |-> Children(fmts)]
            item == ItemOf(vals)
            spec == [key |-> "z_multi"]
        IN  /\ \E doc \in PriorDocs(spec) :
                  Called("MultiExtractor", self, item, Schema({}), spec, doc, "encode_multiple",
                         MultiExtractor_extract(self, item), <<>>)
            /\ UNCHANGED lang

\* extract_and_store on a TransformerExtractor wrapping an ItemDataExtractor.
TransformerStore ==
    /\ pc = "idle"
    /\ \E v \in PyVals, transformers \in SeqsUpTo(Transformers, MaxTransformers),
       skip_none_value \in BOOLEAN :
      LET self == [cls |-> "TransformerExtractor", format |-> "data",
                   extractor |-> ItemDataExtractor(FieldKey(1), "data"),
                   transformers |-> transformers,
                   skip_none_value |-> skip_none_value]
          item == ItemOf(<<v>>)
          spec == [key |-> "z_transformed"]
      IN  /\ \E doc \in PriorDocs(spec) :
                Called("TransformerExtractor", self, item, Schema({}), spec, doc, "encode_single",
                       TransformerExtractor_extract(self, item), <<>>)
          /\ UNCHANGED lang

\* extract_and_store on an ItemTitleExtractor.
ItemTitleStore ==
    /\ pc = "idle"
    /\ \E item \in SchemaItems, library_context \in LibraryContexts :
         LET self == [cls |-> "ItemTitleExtractor", format |-> "data"]
             spec == [key |-> "z_title"]
         IN  \E doc \in PriorDocs(spec) :
               Called("ItemTitleExtractor", self, item, library_context, spec, doc,
                      "encode_single",
                      [value |-> ItemTitleExtractor_extract(item, library_context),
                       trace |-> <<>>], <<>>)
    /\ UNCHANGED lang

\* extract_and_store on an ItemTypeLabelExtractor.
ItemTypeLabelStore ==
    /\ pc = "idle"
    /\ \E item \in SchemaItems, library_context \in LibraryContexts :
         LET self == [cls |-> "ItemTypeLabelExtractor", format |-> "data"]
             spec == [key |-> "z_item_type_label"]
             r == ItemTypeLabelExtractor_extract(item, library_context)
         IN  \E doc \in PriorDocs(spec) :
               Called("ItemTypeLabelExtractor", self, item, library_context, spec, doc,
                      "encode_single", [value |-> r.value, trace |-> <<>>], r.log)
    /\ UNCHANGED lang

\* extract_and_store on a CreatorTypesExtractor.
CreatorTypesStore ==
    /\ pc = "idle"
    /\ \E ty \in ItemTypeNames \cup {NoType}, library_context \in LibraryContexts,
          ks \in SeqsUpTo(CreatorKinds, MaxCreators), has_creators \in BOOLEAN :
         LET self == [cls |-> "CreatorTypesExtractor", format |-> "data"]
             spec == [key |-> "z_creator_types"]
             item == CreatorsItem(ty, has_creators, [i \in DOMAIN ks |-> Creator(ks[i])])
             r == CreatorTypesExtractor_extract(item, library_context)
         IN  /\ has_creators \/ ks = <<>>
             /\ \E doc \in PriorDocs(spec) :
                  Called("CreatorTypesExtractor", self, item, library_context, spec, doc,
                         "encode_single", [value |-> r.value, trace |-> <<>>], r.log)
    /\ UNCHANGED lang

\* extract_and_store on the run's LanguageExtractor.
LanguageStore ==
    /\ pc = "idle"
    /\ \E entries \in SeqsUpTo(LangEntries, MaxLangEntries),
          has_data \in BOOLEAN, has_language \in BOOLEAN :
         LET item == LanguageItem(has_data, has_language, entries)
             spec == [key |-> "z_language"]
             r == LanguageExtractor_extract(lang, item)
         IN  /\ (has_data /\ has_language) \/ entries = <<>>
             /\ has_language => has_data
             /\ \E doc \in PriorDocs(spec) :
                  Called("LanguageExtractor", lang, item, Schema({}), spec, doc,
                         "encode_multiple", [value |-> r.value, trace |-> <<>>], r.log)
             /\ lang' = r.self

\* extract_and_store on a CollectionFacetTreeExtractor.
CollectionFacetTreeStore ==
    /\ pc = "idle"
    /\ \E collection_keys \in SeqsUpTo(CollectionKeys, MaxItemCollections),
          has_collections \in BOOLEAN, root \in {R1, R2, AA} :
         LET self == [cls |-> "CollectionFacetTreeExtractor", format |-> "data"]
             spec == [key |-> "z_facet_collection", collection_key |-> root]
             item == CollectionsItem(has_collections, collection_keys)
             library_context == Schema({"book"})
         IN  /\ has_collections \/ collection_keys = <<>>
             /\ \E doc \in PriorDocs(spec) :
                  Called("CollectionFacetTreeExtractor", self, item, library_context, spec,
                         doc, "encode_multiple",
                         [value |-> CollectionFacetTreeExtractor_extract(item, library_context, spec),
                          trace |-> <<>>], <<>>)
    /\ UNCHANGED lang

\* extract_and_store on an InCollectionExtractor.
InCollectionStore ==
    /\ pc = "idle"
    /\ \E collection_keys \in SeqsUpTo(CollectionKeys, MaxItemCollections),
          has_collections \in BOOLEAN, collection_key \in {R1, AA, DD},
          true_only \in BOOLEAN, check_subcollections \in BOOLEAN :
         LET self == [cls |-> "InCollectionExtractor", format |-> "data",
                      collection_key |-> collection_key, true_only |-> true_only,
                      check_subcollections |-> check_subcollections]
             spec == [key |-> "z_in_collection"]
             item == CollectionsItem(has_collections, collection_keys)
             library_context == Schema({"book"})
         IN  /\ has_collections \/ collection_keys = <<>>
             /\ \E doc \in PriorDocs(spec) :
                  Called("InCollectionExtractor", self, item, library_context, spec,
                         doc, "encode_single",
                         [value |-> InCollectionExtractor_extract(self, item, library_context),
                          trace |-> <<>>], <<>>)
    /\ UNCHANGED lang

\* extract_and_store on a TagsFacetExtractor (BaseTagsExtractor.extract).
TagsFacetStore ==
    /\ pc = "idle"
    /\ \E tags \in SeqsUpTo(TagPool, MaxTags), has_tags \in BOOLEAN,
          include_re \in IncludePatterns, exclude_re \in ExcludePatterns :
         LET self == [cls |-> "TagsFacetExtractor", format |-> "data",
                      include |-> include_re, exclude |-> exclude_re]
             spec == [key |-> "z_facet_tag"]
             item == TagsItem(has_tags, tags)
         IN  /\ has_tags \/ tags = <<>>
             /\ \E doc \in PriorDocs(spec) :
                  Called("TagsFacetExtractor", self, item, Schema({}), spec,
                         doc, "encode_multiple",
                         [value |-> BaseTagsExtractor_extract(self, item), trace |-> <<>>],
                         <<>>)
    /\ UNCHANGED lang

\* extract_and_store on a YearFacetExtractor.
YearFacetStore ==
    /\ pc = "idle"
    /\ \E parsed_date \in ParsedDates, has_meta \in BOOLEAN, has_parsed_date \in BOOLEAN,
          no_year \in NoYears :
         LET self == [cls |-> "YearFacetExtractor", format |-> "data"]
             spec == [key |-> "z_facet_year"]
             item == DateItem(has_meta, has_parsed_date, parsed_date)
         IN  /\ has_parsed_date => has_meta
             /\ has_parsed_date \/ parsed_date = <<>>
             /\ \E doc \in PriorDocs(spec) :
                  Called("YearFacetExtractor", self, item, DateContext(no_year), spec, doc,
                         "encode_multiple",
                         [value |-> YearFacetExtractor_extract(item, DateContext(no_year)),
                          trace |-> <<>>], <<>>)
    /\ UNCHANGED lang

\* extract_and_store on a SortDateExtractor.
SortDateStore ==
    /\ pc = "idle"
    /\ \E parsed_date \in ParsedDates, has_meta \in BOOLEAN, has_parsed_date \in BOOLEAN,
          no_year \in NoYears :
         LET self == [cls |-> "SortDateExtractor", format |-> "data"]
             spec == [key |-> "z_sort_date"]
             item == DateItem(has_meta, has_parsed_date, parsed_date)
         IN  /\ has_parsed_date => has_meta
             /\ has_parsed_date \/ parsed_date = <<>>
             /\ \E doc \in PriorDocs(spec) :
                  Called("SortDateExtractor", self, item, DateContext(no_year), spec, doc,
                         "encode_single",
                         [value |-> SortDateExtractor_extract(item, DateContext(no_year)),
                          trace |-> <<>>], <<>>)
    /\ UNCHANGED lang

\* extract_and_store on a CreatorsExtractor.
CreatorsStore ==
    /\ pc = "idle"
    /\ \E ps \in SeqsUpTo(People, MaxCreators), has_data \in BOOLEAN,
          has_creators \in BOOLEAN :
         LET self == [cls |-> "CreatorsExtractor", format |-> "data"]
             spec == [key |-> "z_creators"]
             creators == [i \in DOMAIN ps |-> Person(ps[i][1], ps[i][2], ps[i][3], "author")]
             item == ("key" :> ItemKey) @@
                     Field("data", has_data,
                           ("key" :> ItemKey) @@ Field("creators", has_creators, creators))
         IN  /\ has_creators => has_data
             /\ has_creators \/ ps = <<>>
             /\ \E doc \in PriorDocs(spec) :
                  Called("CreatorsExtractor", self, item, Schema({}), spec, doc,
                         "encode_single",
                         [value |-> CreatorsExtractor_extract(item), trace |-> <<>>], <<>>)
    /\ UNCHANGED lang

\* extract_and_store on a SortCreatorExtractor.
SortCreatorStore ==
    /\ pc = "idle"
    /\ \E creators \in SeqsUpTo(SortPeople, MaxCreators), has_creators \in BOOLEAN,
          ty \in {"book", "case", "thesis"} :
         LET self == [cls |-> "SortCreatorExtractor", format |-> "data"]
             spec == [key |-> "z_sort_creator"]
             item == CreatorsItem(ty, has_creators, creators)
             library_context == Schema({"book", "case"})
         IN  /\ has_creators \/ creators = <<>>
             /\ \E doc \in PriorDocs(spec) :
                  Called("SortCreatorExtractor", self, item, library_context, spec, doc,
                         "encode_single",
                         [value |-> SortCreatorExtractor_extract(item, library_context),
                          trace |-> <<>>], <<>>)
    /\ UNCHANGED lang

\* extract_and_store on a ChildFileAttachmentsExtractor.
ChildFileAttachmentsStore ==
    /\ pc = "idle"
    /\ \E children \in SeqsUpTo(ChildPool, MaxChildItems), has_children \in BOOLEAN,
          gate \in TagGates, mime_types \in {{}, {PDF}} :
         LET self == [cls |-> "ChildFileAttachmentsExtractor", format |-> "data",
                      item_type |-> "attachment", gate |-> gate, mime_types |-> mime_types]
             spec == [key |-> "z_attachments"]
             item == ChildrenItem(has_children, children)
         IN  /\ has_children \/ children = <<>>
             /\ \E doc \in PriorDocs(spec) :
                  Called("ChildFileAttachmentsExtractor", self, item, Schema({}), spec, doc, "encode_single",
                         [value |-> ChildFileAttachmentsExtractor_extract(self, item), trace |-> <<>>], <<>>)
    /\ UNCHANGED lang

\* extract_and_store on a ChildLinkedURIAttachmentsExtractor.
ChildLinkedURIAttachmentsStore ==
    /\ pc = "idle"
    /\ \E children \in SeqsUpTo(ChildPool, MaxChildItems), has_children \in BOOLEAN,
          gate \in TagGates :
         LET self == [cls |-> "ChildLinkedURIAttachmentsExtractor", format |-> "data",
                      item_type |-> "attachment", gate |-> gate]
             spec == [key |-> "z_links"]
             item == ChildrenItem(has_children, children)
         IN  /\ has_children \/ children = <<>>
             /\ \E doc \in PriorDocs(spec) :
                  Called("ChildLinkedURIAttachmentsExtractor", self, item, Schema({}), spec, doc, "encode_single",
                         [value |-> ChildLinkedURIAttachmentsExtractor_extract(self, item), trace |-> <<>>], <<>>)
    /\ UNCHANGED lang

\* extract_and_store on a ChildAttachmentsFulltextExtractor.
ChildAttachmentsFulltextStore ==
    /\ pc = "idle"
    /\ \E children \in SeqsUpTo(ChildPool, MaxChildItems), has_children \in BOOLEAN,
          gate \in TagGates, mime_types \in {{}, {PDF}} :
         LET self == [cls |-> "ChildAttachmentsFulltextExtractor", format |-> "data",
                      item_type |-> "attachment", gate |-> gate, mime_types |-> mime_types]
             spec == [key |-> "z_text_docs"]
             item == ChildrenItem(has_children, children)
         IN  /\ has_children \/ children = <<>>
             /\ \E doc \in PriorDocs(spec) :
                  Called("ChildAttachmentsFulltextExtractor", self, item, Schema({}), spec, doc, "encode_single",
                         [value |-> ChildAttachmentsFulltextExtractor_extract(self, item), trace |-> <<>>], <<>>)
    /\ UNCHANGED lang

\* extract_and_store on a ChildNotesTextExtractor.
ChildNotesTextStore ==
    /\ pc = "idle"
    /\ \E children \in SeqsUpTo(ChildPool, MaxChildItems), has_children \in BOOLEAN,
          gate \in TagGates :
         LET self == [cls |-> "ChildNotesTextExtractor", format |-> "data",
                      item_type |-> "note", gate |-> gate]
             spec == [key |-> "z_text_notes"]
             item == ChildrenItem(has_children, children)
         IN  /\ has_children \/ children = <<>>
             /\ \E doc \in PriorDocs(spec) :
                  Called("ChildNotesTextExtractor", self, item, Schema({}), spec, doc, "encode_single",
                         [value |-> ChildNotesTextExtractor_extract(self, item), trace |-> <<>>], <<>>)
    /\ UNCHANGED lang

\* extract_and_store on a RawChildNotesExtractor.
RawChildNotesStore ==
    /\ pc = "idle"
    /\ \E children \in SeqsUpTo(ChildPool, MaxChildItems), has_children \in BOOLEAN,
          gate \in TagGates :
         LET self == [cls |-> "RawChildNotesExtractor", format |-> "data",
                      item_type |-> "note", gate |-> gate]
             spec == [key |-> "z_notes"]
             item == ChildrenItem(has_children, children)
         IN  /\ has_children \/ children = <<>>
             /\ \E doc \in PriorDocs(spec) :
                  Called("RawChildNotesExtractor", self, item, Schema({}), spec, doc, "encode_single",
                         [value |-> RawChildNotesExtractor_extract(self, item), trace |-> <<>>], <<>>)
    /\ UNCHANGED lang

\* self.extract(item, library_context, spec) of line 107, by the class of
\* self: the value, the warnings logged and the extractor afterwards.
Extract(cls, self, item, library_context, spec) ==
    LET Value(v) == [value |-> v, log |-> <<>>, self |-> self]
        Logged(r) == [value |-> r.value, log |-> r.log, self |-> self]
    IN  CASE cls = "ItemDataExtractor" -> Value(ItemDataExtractor_extract(self, item))
          [] cls = "ChainExtractor" -> Value(ChainExtractor_extract(self, item).value)
          [] cls = "MultiExtractor" -> Value(MultiExtractor_extract(self, item).value)
          [] cls = "TransformerExtractor" ->
                 Value(TransformerExtractor_extract(self, item).value)
          [] cls = "ItemTitleExtractor" ->
                 Value(ItemTitleExtractor_extract(item, library_context))
          [] cls = "ItemTypeLabelExtractor" ->
                 Logged(ItemTypeLabelExtractor_extract(item, library_context))
          [] cls = "CreatorTypesExtractor" ->
                 Logged(CreatorTypesExtractor_extract(item, library_context))
          [] cls = "LanguageExtractor" -> LanguageExtractor_extract(self, item)
          [] cls = "CollectionFacetTreeExtractor" ->
                 Value(CollectionFacetTreeExtractor_extract(item, library_context, spec))
          [] cls = "InCollectionExtractor" ->
                 Value(InCollectionExtractor_extract(self, item, library_context))
          [] cls = "TagsFacetExtractor" -> Value(BaseTagsExtractor_extract(self, item))
          [] cls = "YearFacetExtractor" ->
                 Value(YearFacetExtractor_extract(item, library_context))
          [] cls = "SortDateExtractor" ->
                 Value(SortDateExtractor_extract(item, library_context))
          [] cls = "CreatorsExtractor" -> Value(CreatorsExtractor_extract(item))
          [] cls = "SortCreatorExtractor" ->
                 Value(SortCreatorExtractor_extract(item, library_context))
          [] cls = "ChildFileAttachmentsExtractor" ->
                 Value(ChildFileAttachmentsExtractor_extract(self, item))
          [] cls = "ChildLinkedURIAttachmentsExtractor" ->
                 Value(ChildLinkedURIAttachmentsExtractor_extract(self, item))
          [] cls = "ChildAttachmentsFulltextExtractor" ->
                 Value(ChildAttachmentsFulltextExtractor_extract(self, item))
          [] cls = "ChildNotesTextExtractor" ->
                 Value(ChildNotesTextExtractor_extract(self, item))
          [] cls = "RawChildNotesExtractor" ->
                 Value(RawChildNotesExtractor_extract(self, item))

\* The caller extracts the language of the same item again, with the same
\* LanguageExtractor instance (as the first call left it), library context
\* and spec, into a document like the one the first call was given. The
\* other extractors keep nothing between calls: their second call is their
\* first one over again.
Reextract ==
    /\ pc = "done" /\ op = "LanguageExtractor"
    /\ \E r \in {Extract(op, lang, args.item, args.library_context, args.spec)} :
          /\ second' = [value |-> r.value, log |-> r.log,
                        document |-> extract_and_store(args.document, args.encode,
                                                       r.value, args.spec)]
          /\ lang' = r.self
    /\ pc' = "again"
    /\ UNCHANGED <<op, args, result, trace, log, document>>

\* The caller takes the document and moves on to the next field or item.
Return ==
    /\ pc \in {"done", "again"}
    /\ pc' = "idle"
    /\ op' = "none"
    /\ args' = NoArgs
    /\ result' = None
    /\ trace' = <<>>
    /\ log' = <<>>
    /\ document' = EmptyDoc
    /\ second' = NoArgs
    /\ UNCHANGED lang

Next ==
    \/ ItemDataStore
    \/ ChainStore
    \/ MultiStore
    \/ TransformerStore
    \/ ItemTitleStore
    \/ ItemTypeLabelStore
    \/ CreatorTypesStore
    \/ LanguageStore
    \/ CollectionFacetTreeStore
    \/ InCollectionStore
    \/ TagsFacetStore
    \/ YearFacetStore
    \/ SortDateStore
    \/ CreatorsStore
    \/ SortCreatorStore
    \/ ChildFileAttachmentsStore
    \/ ChildLinkedURIAttachmentsStore
    \/ ChildAttachmentsFulltextStore
    \/ ChildNotesTextStore
    \/ RawChildNotesStore
    \/ Reextract
    \/ Return

Spec == Init /\ [][Next]_vars

-----------------------------------------------------------------------------
(* Properties *)

Done(cls) == pc = "done" /\ op = cls

\* What each child of the composite of the completed call returns for its item.
ChildValues ==
    [i \in DOMAIN args.self.extractors |->
        ItemDataExtractor_extract(args.self.extractors[i], args.item)]

\* C1: extract_and_store assigns document[spec.key] exactly when extract
\* returned a non-null value, the value assigned is the extractor's encoding of
\* that result, and every other key of the document is left as it was; a null
\* result (or an exception) leaves the whole document unchanged.
C1_StoreIffNonNull ==
    pc = "done" =>
        LET doc0 == args.document
            key == args.spec.key
        IN  /\ result.t # "raise" /\ result # None =>
                /\ key \in DOMAIN document
                /\ document[key] = Encode(args.encode, result, args.spec)
                /\ DOMAIN document = DOMAIN doc0 \cup {key}
            /\ result.t = "raise" \/ result = None => document = doc0
            /\ \A k \in DOMAIN doc0 \ {key} :
                    k \in DOMAIN document /\ document[k] = doc0[k]

\* C1 witness: a falsy but non-null value replaces the field's earlier value.
C1_Witness ==
    /\ Done("ItemDataExtractor")
    /\ result = Str(<<>>)
    /\ "id" \in DOMAIN args.document
    /\ document[args.spec.key] = spec_encode(args.spec, Str(<<>>))
    /\ document["id"] = OldValue

\* C2: a ChainExtractor that returns invokes its children in list order up to
\* and including the first one whose result is non-null and returns that
\* result (falsy values stop the chain too); it returns null exactly when
\* every child returns null, having invoked them all.
C2_ChainFirstNonNull ==
    Done("ChainExtractor") /\ result.t # "raise" =>
        LET cv == ChildValues
            hits == {i \in DOMAIN cv : cv[i] # None}
        IN  IF hits = {}
            THEN result = None /\ trace = [i \in DOMAIN cv |-> i]
            ELSE LET f == CHOOSE i \in hits : \A j \in hits : i <= j
                 IN  result = cv[f] /\ trace = [i \in 1..f |-> i]

\* C2 witness: a first child returning False stops a chain of two children.
C2_Witness ==
    /\ Done("ChainExtractor")
    /\ Len(args.self.extractors) = 2
    /\ result = Bool(FALSE)
    /\ trace = <<1>>
    /\ ChildValues[2] # None

\* The accumulated sequence C3 describes, for child values cv from child i on:
\* strs tells whether non-empty strings are accumulated (whole).
RECURSIVE C3_Accumulated(_, _, _)
C3_Accumulated(cv, i, strs) ==
    IF i > Len(cv) THEN <<>>
    ELSE (CASE cv[i].t \in {"list", "tuple"} -> cv[i].v
            [] cv[i].t = "str" -> IF strs /\ cv[i].v # <<>> THEN <<cv[i]>> ELSE <<>>
            [] OTHER -> IF Truthy(cv[i]) THEN <<cv[i]>> ELSE <<>>)
         \o C3_Accumulated(cv, i + 1, strs)

C3_Holds(strs) ==
    Done("MultiExtractor") /\ result.t # "raise" =>
        LET acc == C3_Accumulated(ChildValues, 1, strs)
        IN  /\ trace = [i \in DOMAIN ChildValues |-> i]
            /\ result = IF acc = <<>> THEN None ELSE List(acc)

\* C3 as claimed: MultiExtractor invokes every child in order and returns the
\* non-string iterable results flattened and the non-iterable truthy scalars
\* appended, in child order; string results and falsy scalars are not
\* accumulated; null if nothing was accumulated.
C3_Original == C3_Holds(FALSE)

\* C3 amended: as claimed, except that a non-empty string result is appended
\* whole as one element (only empty strings and falsy scalars are dropped).
C3_MultiFlatten == C3_Holds(TRUE)

\* C3 witness: a list and a non-empty string are merged in child order.
C3_Witness ==
    /\ Done("MultiExtractor")
    /\ result = List(<<Str(<<"x">>), Str(<<"y">>), Str(<<"a", "b">>)>>)
    /\ trace = <<1, 2>>

RECURSIVE C4_Applied(_, _)
C4_Applied(ts, v) ==
    IF ts = <<>> THEN v ELSE C4_Applied(Tail(ts), Transformer(Head(ts), v))

\* C4: TransformerExtractor returns the wrapped extractor's result with the
\* transformers applied in list order, each to the previous one's output; with
\* skip_none_value a null wrapped result is returned as null and no transformer
\* is called; without it the transformers are applied to null as well.
C4_TransformersInOrder ==
    Done("TransformerExtractor") =>
        LET v0 == ItemDataExtractor_extract(args.self.extractor, args.item)
        IN  IF v0 = None /\ args.self.skip_none_value
            THEN result = None /\ trace = <<>>
            ELSE /\ trace = args.self.transformers
                 /\ result = C4_Applied(args.self.transformers, v0)

\* C4 witness: with skip_none_value off, two transformers turn null into "a".
C4_Witness ==
    /\ Done("TransformerExtractor")
    /\ ~args.self.skip_none_value
    /\ ItemDataExtractor_extract(args.self.extractor, args.item) = None
    /\ args.self.transformers = <<"default_empty", "suffix_a">>
    /\ result = Str(<<"a">>)

\* The item type of the completed call's item is no key of the schema map m.
C5_TypeAbsent(m) == ItemType(args.item) \notin DOMAIN m

C5_Holds(attachment_warns) ==
    /\ Done("ItemTitleExtractor") /\ C5_TypeAbsent(args.library_context.item_fields)
           => result = Str(<<>>) /\ log = <<>>
    /\ \A cls \in {"ItemTypeLabelExtractor", "CreatorTypesExtractor"} :
           /\ Done(cls)
           /\ C5_TypeAbsent(IF cls = "ItemTypeLabelExtractor"
                            THEN args.library_context.item_types
                            ELSE args.library_context.creator_types)
           => /\ result = None
              /\ IF attachment_warns \/ ItemType(args.item) # "attachment"
                 THEN Len(log) = 1 /\ log[1].extractor = cls
                      /\ log[1].item = ItemKey
                 ELSE log = <<>>

\* C5 as claimed: for every item whose item type is absent from the library
\* schema, ItemTitleExtractor returns the empty string, and
\* ItemTypeLabelExtractor and CreatorTypesExtractor each return null and log a
\* warning.
C5_Original == C5_Holds(TRUE)

\* C5 amended: as claimed, except that for the item type "attachment" the two
\* extractors return null without logging a warning.
C5_UnknownItemType == C5_Holds(FALSE)

\* C5 witness: an item of a type the schema lacks gets no label and a warning.
C5_Witness ==
    /\ Done("ItemTypeLabelExtractor")
    /\ ItemType(args.item) = "thesis"
    /\ DOMAIN args.library_context.item_types # {}
    /\ result = None
    /\ Len(log) = 1

C6_NoLanguage == "language" \notin DOMAIN Get(args.item, "data", EmptyDict)

\* C6: for every item without a language field (or without data), and for
\* every configuration of normalize and allow_invalid, LanguageExtractor
\* returns null.
C6_NoLanguageIsNull ==
    Done("LanguageExtractor") /\ C6_NoLanguage => result = None

\* C6 witness: an item with data and no language, normalizing and allowing
\* invalid values.
C6_Witness ==
    /\ Done("LanguageExtractor")
    /\ "data" \in DOMAIN args.item
    /\ C6_NoLanguage
    /\ args.self.normalize /\ args.self.allow_invalid
    /\ result = None

\* The ISO 639-3 code of each entry that is a known 2-letter, 3-letter or
\* bibliographic code, with or without a region suffix.
C7_CodeOf ==
    (<<"e", "n", "g">> :> <<"e", "n", "g">>) @@
    (<<"E", "N", "-", "u", "s">> :> <<"e", "n", "g">>) @@
    (<<"f", "r", "e">> :> <<"f", "r", "a">>) @@
    (<<" ", "f", "r">> :> <<"f", "r", "a">>)

C7_Entries == Split(args.item["data"]["language"].v, {";"}, -1)

\* The codes of the entries, each at its first occurrence only.
C7_Expected ==
    LET codes == [i \in DOMAIN C7_Entries |-> C7_CodeOf[C7_Entries[i]]]
        first == {i \in DOMAIN codes : \A j \in 1..(i - 1) : codes[j] # codes[i]}
    IN  [k \in 1..Cardinality(first) |->
            codes[CHOOSE i \in first : Cardinality({j \in first : j <= i}) = k]]

C7_Holds(any_configuration) ==
    /\ Done("LanguageExtractor")
    /\ ~C6_NoLanguage
    /\ \A i \in DOMAIN C7_Entries : C7_Entries[i] \in DOMAIN C7_CodeOf
    /\ any_configuration \/ args.self.normalize
    => /\ result.t = "list"
       /\ [i \in DOMAIN result.v |-> result.v[i].v[1]] =
              [i \in DOMAIN C7_Expected |-> Str(C7_Expected[i])]

\* C7 as claimed: for every language field made of separator-delimited known
\* codes, each entry of the result carries the 3-letter ISO 639-3 code, no code
\* appears twice, and the codes are in order of first occurrence.
C7_Original == C7_Holds(TRUE)

\* C7 amended: as claimed, for an extractor that normalizes (normalize=True,
\* the default); with normalize=False the entries are used verbatim.
C7_KnownCodes == C7_Holds(FALSE)

\* C7 witness: "EN-us;fre;eng" resolves to eng, fra.
C7_Witness ==
    /\ Done("LanguageExtractor")
    /\ ~C6_NoLanguage
    /\ C7_Entries = <<<<"E", "N", "-", "u", "s">>, <<"f", "r", "e">>, <<"e", "n", "g">>>>
    /\ result.t = "list"
    /\ Len(result.v) = 2
    /\ result.v[1].v[1] = Str(<<"e", "n", "g">>)
    /\ result.v[2].v[1] = Str(<<"f", "r", "a">>)

\* The parent chain of key, written out from the library's parent links.
RECURSIVE C8_ChainOf(_)
C8_ChainOf(key) ==
    IF Collections[key].data.parentCollection = NoParent THEN <<key>>
    ELSE C8_ChainOf(Collections[key].data.parentCollection) \o <<key>>

C8_Label(key) == Strip(Collections[key].data.name)

\* The (path, label) pairs C8 describes for the completed call.
C8_Expected ==
    LET keys == Get(args.item["data"], "collections", <<>>)
        under == {keys[i] : i \in {j \in DOMAIN keys :
                     /\ keys[j] \in DOMAIN Collections
                     /\ keys[j] # args.spec.collection_key
                     /\ C8_ChainOf(keys[j])[1] = args.spec.collection_key}}
    IN  UNION {{Tuple(<<Tuple(SubSeq(C8_ChainOf(k), 2, n)), Str(C8_Label(C8_ChainOf(k)[n]))>>) :
                   n \in 2..Len(C8_ChainOf(k))} : k \in under}

\* C8: CollectionFacetTreeExtractor yields, for every item collection whose
\* ancestor chain starts at the spec's root collection, exactly the non-empty
\* prefixes of the chain without the root, each paired with the label of its
\* last segment; unknown collections, the root itself and collections under
\* another root add nothing; the result is null when no pair was produced.
C8_FacetTreePrefixes ==
    Done("CollectionFacetTreeExtractor") =>
        result = IF C8_Expected = {} THEN None ELSE PySet(C8_Expected)

\* C8 witness: root R1 > AA > BB and an item in BB yield (AA,) and (AA, BB).
C8_Witness ==
    /\ Done("CollectionFacetTreeExtractor")
    /\ args.spec.collection_key = R1
    /\ Get(args.item["data"], "collections", <<>>) = <<BB>>
    /\ result = PySet({Tuple(<<Tuple(<<AA>>), Str(<<"A", "l">>)>>),
                       Tuple(<<Tuple(<<AA, BB>>), Str(<<"B", "e">>)>>)})

\* C9 (as claimed): InCollectionExtractor reports membership exactly when the
\* configured key is one of the item's own collection keys
\* (check_subcollections=False) or occurs in the ancestor chain of one of the
\* item's collections (check_subcollections=True); with true_only the result is
\* True for a member and null otherwise, without it a boolean.
C9_Membership ==
    Done("InCollectionExtractor") =>
        LET keys == Get(args.item["data"], "collections", <<>>)
            member ==
                \E i \in DOMAIN keys :
                    IF args.self.check_subcollections
                    THEN /\ keys[i] \in DOMAIN Collections
                         /\ \E n \in DOMAIN C8_ChainOf(keys[i]) :
                                C8_ChainOf(keys[i])[n] = args.self.collection_key
                    ELSE keys[i] = args.self.collection_key
        IN  result = IF args.self.true_only
                     THEN (IF member THEN Bool(TRUE) ELSE None)
                     ELSE Bool(member)

C10_StartsWith(pattern, tag) ==
    LET literal == IF Head(pattern) = "^" THEN Tail(pattern) ELSE pattern
    IN  /\ Len(literal) <= Len(tag)
        /\ \A i \in 1..Len(literal) : tag[i] = literal[i]

\* The tags C10 accepts for the completed call.
C10_Accepted ==
    LET tags_data == Get(args.item["data"], "tags", <<>>)
        stripped == {Strip(tags_data[i].tag) :
                        i \in {j \in DOMAIN tags_data : "tag" \in DOMAIN tags_data[j]}}
    IN  {t \in stripped :
            /\ t # <<>>
            /\ args.self.include # <<>> => C10_StartsWith(args.self.include, t)
            /\ args.self.exclude # <<>> => ~C10_StartsWith(args.self.exclude, t)}

\* C10: the tags extractor accepts a tag exactly when the stripped tag is
\* non-empty, matches the include regex at the tag's start (when configured)
\* and does not match the exclude regex at the tag's start (when configured);
\* the result is the set of accepted tags, or null when none is accepted.
C10_TagFilter ==
    Done("TagsFacetExtractor") =>
        result = IF C10_Accepted = {} THEN None
                 ELSE PySet({Str(t) : t \in C10_Accepted})

\* C10 witness: include "^public" and exclude "^public-internal" keep
\* "public-release" and drop "public-internal-draft".
C10_Witness ==
    /\ Done("TagsFacetExtractor")
    /\ args.self.include = <<"^">> \o s_public
    /\ args.self.exclude = <<"^">> \o s_public_internal
    /\ Get(args.item["data"], "tags", <<>>) =
           <<TagData(s_public_internal_draft), TagData(s_public_release)>>
    /\ result = PySet({Str(s_public_release)})

\* The year a parsedDate text starts with.
C11_Year == ParseInt(SubSeq(ParsedDateOf(args.item), 1, 4))

\* The path (century, decade, year) of a year, as strings.
C11_Path(y) ==
    <<Str(IntToStr(100 * (y \div 100))), Str(IntToStr(10 * (y \div 10))), Str(IntToStr(y))>>

s_2023_05_14 == <<"2", "0", "2", "3", "-", "0", "5", "-", "1", "4">>

\* C11 read with either shape of the result: the single path, or the path
\* and its prefixes.
C11_Holds(single_path) ==
    Done("YearFacetExtractor") =>
        LET text == ParsedDateOf(args.item)
            path == C11_Path(C11_Year)
            expected == IF single_path THEN List(path)
                        ELSE List(<<List(SubSeq(path, 1, 1)), List(SubSeq(path, 1, 2)),
                                    List(path)>>)
        IN  /\ text # <<>> => result = expected
            /\ text = <<>> => result = None
            /\ text = s_2023_05_14 =>
                 path = <<Str(<<"2", "0", "0", "0">>), Str(<<"2", "0", "2", "0">>),
                          Str(<<"2", "0", "2", "3">>)>>

\* C11 (as claimed): for an item whose parsedDate parses to a year y,
\* YearFacetExtractor.extract yields exactly the single path
\* [century, decade, year] as strings; with no parsedDate it yields null.
C11_Original == C11_Holds(TRUE)

\* C11 amended: for an item whose parsedDate parses to a year y,
\* YearFacetExtractor.extract yields the three prefix paths [century],
\* [century, decade], [century, decade, year], as strings, with
\* century = 100*floor(y/100) and decade = 10*floor(y/10); for "2023-05-14"
\* the last path is ["2000","2020","2023"]; with no parsedDate it yields null.
C11_YearFacetPaths == C11_Holds(FALSE)

\* C11 witness: the year facet of "2023-05-14" is stored.
C11_Witness ==
    /\ Done("YearFacetExtractor")
    /\ ParsedDateOf(args.item) = s_2023_05_14
    /\ result.t = "list" /\ Len(result.v) = 3
    /\ result.v[3] = List(<<Str(<<"2", "0", "0", "0">>), Str(<<"2", "0", "2", "0">>),
                            Str(<<"2", "0", "2", "3">>)>>)
    /\ args.spec.key \in DOMAIN document

\* The component of a partial date held at positions from..to of the text,
\* or 1 when the text is too short to hold it.
C12_Part(text, from, to) ==
    IF Len(text) >= to THEN ParseInt(SubSeq(text, from, to)) ELSE 1

\* C12: SortDateExtractor.extract returns the integer
\* 10000*year + 100*month + day of the partial date parsed from parsedDate,
\* a missing month or day counting as 1; a parsedDate of "1999" gives 19990101.
C12_SortDatePacked ==
    Done("SortDateExtractor") =>
        LET text == ParsedDateOf(args.item)
            month == C12_Part(text, 6, 7)
            day == C12_Part(text, 9, 10)
            year == IF text = <<>> THEN args.library_context.no_year
                    ELSE C12_Part(text, 1, 4)
        IN  /\ result = PyInt(10000 * year + 100 * month + day)
            /\ text = <<"1", "9", "9", "9">> => result = PyInt(19990101)

\* C12 witness: a year-only date is packed with month and day 1 and stored.
C12_Witness ==
    /\ Done("SortDateExtractor")
    /\ ParsedDateOf(args.item) = <<"1", "9", "9", "9">>
    /\ result = PyInt(19990101)
    /\ document[args.spec.key] = spec_encode(args.spec, PyInt(19990101))

\* The creators of the item of the completed call.
C13_Creators == Get(Get(args.item, "data", EmptyDict), "creators", <<>>)

C13_Text(creator, k) == Strip(richtext_striptags(Get(creator, k, Str(<<>>)).v))

\* What one creator contributes; repeated tells whether the "F L" form of a
\* creator without a display name is entered twice.
C13_Contribution(creator, repeated) ==
    LET F == C13_Text(creator, "firstName")
        L == C13_Text(creator, "lastName")
        N == Get(creator, "name", Str(<<>>)).v
        FL == F \o <<" ">> \o L
        LF == L \o <<",", " ">> \o F
    IN  CASE F # <<>> /\ L # <<>> /\ N = <<>> ->
                 IF repeated THEN <<FL, FL, LF>> ELSE <<FL, LF>>
          [] F # <<>> /\ L # <<>> /\ N # <<>> -> <<C13_Text(creator, "name"), FL, LF>>
          [] OTHER -> (IF N # <<>> THEN <<C13_Text(creator, "name")>> ELSE <<>>) \o
                      (IF F # <<>> THEN <<F>> ELSE IF L # <<>> THEN <<L>> ELSE <<>>)

C13_Holds(repeated) ==
    Done("CreatorsExtractor") =>
        LET entries == Concat([i \in DOMAIN C13_Creators |->
                                  C13_Contribution(C13_Creators[i], repeated)])
        IN  result = IF entries = <<>> THEN None
                     ELSE Str(Join(entries, RECORD_SEPARATOR))

\* C13 (as claimed): a creator with non-empty firstName F and lastName L and
\* no display name contributes ["F L", "F L", "L, F"], and the result is the
\* contributions of all creators, in creator order, joined by 0x1E.
C13_Original == C13_Holds(TRUE)

\* C13 amended: a creator with non-empty firstName F and lastName L and no
\* display name contributes the two entries ["F L", "L, F"] (a display name,
\* when there is one, comes first as a third entry), and the result is the
\* contributions of all creators, in creator order, joined by 0x1E, or null
\* when no creator contributes anything.
C13_CreatorsJoined == C13_Holds(FALSE)

\* C13 witness: Jane Doe, without a display name, followed by another creator.
C13_Witness ==
    /\ Done("CreatorsExtractor")
    /\ Len(C13_Creators) = 2
    /\ C13_Creators[1] = Person(s_Jane, s_Doe, NoTag, "author")
    /\ C13_Creators[2] = Person(NoTag, NoTag, s_ACME, "author")
    /\ result = Str(s_Jane \o <<" ">> \o s_Doe \o RECORD_SEPARATOR \o
                    s_Doe \o <<",", " ">> \o s_Jane \o RECORD_SEPARATOR \o s_ACME)
    /\ args.spec.key \in DOMAIN document

\* The completed call was on a composite with a child of another format.
C15_Mismatch ==
    /\ Done("ChainExtractor") \/ Done("MultiExtractor")
    /\ \E i \in DOMAIN args.self.extractors :
          args.self.extractors[i].format # args.self.format

\* C15 (as claimed): a ChainExtractor or MultiExtractor with at least one
\* child whose format differs from its own fails with an assertion error for
\* every item and never returns a value.
C15_FormatMismatchFails == C15_Mismatch => result = Raised("AssertionError")

\* The same statement for MultiExtractor alone, whose loop visits every child.
C15_MultiMismatchFails ==
    C15_Mismatch /\ op = "MultiExtractor" => result = Raised("AssertionError")

\* A chain whose mismatched child comes after a child that has a value.
C15_ChainReturns ==
    /\ C15_Mismatch /\ op = "ChainExtractor"
    /\ args.self.extractors[1].format = args.self.format
    /\ result = ChildValues[1] /\ result # None
    /\ args.spec.key \in DOMAIN document

\* The folded form of a creator's part k.
C16_Folded(creator, k) == Lower(MarkupStripTags(Get(creator, k, Str(<<>>)).v))

\* A creator's sort entry: its non-empty folded parts, last name first.
C16_Entry(creator) ==
    Join(SelectSeq(<<C16_Folded(creator, "lastName"), C16_Folded(creator, "firstName"),
                     C16_Folded(creator, "name")>>, LAMBDA part : part # <<>>),
         <<" ", "z", "z", "z", " ">>)

\* The creators of the item that carry creator type t, in item order.
C16_OfType(t) ==
    SelectSeq(C13_Creators,
              LAMBDA c : "creatorType" \in DOMAIN c /\ c["creatorType"] = t)

\* The creator types of the item's type, in schema order.
C16_Types ==
    LET ty == ItemType(args.item)
    IN  IF ty \in DOMAIN args.library_context.creator_types
        THEN [i \in DOMAIN args.library_context.creator_types[ty] |->
                 args.library_context.creator_types[ty][i].creatorType]
        ELSE <<>>

\* C16: SortCreatorExtractor builds its result only from the creators of the
\* first creator type, in schema order, that at least one creator carries:
\* those creators' entries in item order, joined by " zzzzzz ", each entry the
\* creator's non-empty folded lastName, firstName and name joined by " zzz ";
\* with no matching creator the result is the empty string.
C16_PrimaryCreatorsOnly ==
    Done("SortCreatorExtractor") =>
        LET hits == {i \in DOMAIN C16_Types : C16_OfType(C16_Types[i]) # <<>>}
        IN  IF hits = {} THEN result = Str(<<>>)
            ELSE LET f == CHOOSE i \in hits : \A j \in hits : i <= j
                     selected == C16_OfType(C16_Types[f])
                 IN  result = Str(Join([i \in DOMAIN selected |-> C16_Entry(selected[i])],
                                       <<" ", "z", "z", "z", "z", "z", "z", " ">>))

\* C16 witness: a book with an editor listed before its author is sorted by
\* the author alone.
C16_Witness ==
    /\ Done("SortCreatorExtractor")
    /\ ItemType(args.item) = "book"
    /\ Len(C13_Creators) = 2
    /\ C13_Creators[1] = Person(NoTag, NoTag, s_ACME, "editor")
    /\ C13_Creators[2] = Person(s_Al, s_Roe_markup, <<>>, "author")
    /\ result = Str(<<"r", "o", "e", " ", "z", "z", "z", " ", "a", "l">>)
    /\ document[args.spec.key] = spec_encode(args.spec, result)

C18_Classes ==
    {"ChildFileAttachmentsExtractor", "ChildLinkedURIAttachmentsExtractor",
     "ChildAttachmentsFulltextExtractor", "ChildNotesTextExtractor",
     "RawChildNotesExtractor"}

\* The children of the item that have the extractor's item type and pass its
\* tag gate.
C18_Accepted == BaseChildrenExtractor_extract(args.self, args.item)

\* The child passes the extractor's own filter: a stored file (of an allowed
\* MIME type), a link with a URL, a stored file with full text, a note body.
C18_Qualifies(child) ==
    LET data == child["data"]
        stored == /\ Get(data, "linkMode", NoType) \in {"imported_file", "imported_url"}
                  /\ "mime_types" \in DOMAIN args.self =>
                        \/ args.self.mime_types = {}
                        \/ Get(data, "contentType", None) \in args.self.mime_types
    IN  CASE op = "ChildFileAttachmentsExtractor" -> stored
          [] op = "ChildLinkedURIAttachmentsExtractor" ->
                 Get(data, "linkMode", NoType) = "linked_url" /\ Truthy(Get(data, "url", None))
          [] op = "ChildAttachmentsFulltextExtractor" ->
                 stored /\ Truthy(Get(child, "fulltext", None))
          [] OTHER -> Truthy(Get(data, "note", None))

C18_NoneQualifies == \A i \in DOMAIN C18_Accepted : ~C18_Qualifies(C18_Accepted[i])

\* C18 (as claimed): the child-based extractors return null whenever no child
\* qualifies for the field; their result is never an empty list or an empty
\* string, so no document key is populated with an empty value.
C18_NullUnlessQualified ==
    pc = "done" /\ op \in C18_Classes =>
        /\ C18_NoneQualifies => result = None
        /\ result \notin {List(<<>>), Str(<<>>)}
        /\ args.spec.key \in DOMAIN document =>
              document[args.spec.key].v \notin {List(<<>>), Str(<<>>)}

\* What the extractors do instead: the result is null exactly when no child
\* has the extractor's item type and passes its gate.
C18_NullIffNoneAccepted ==
    pc = "done" /\ op \in C18_Classes => (result = None <=> C18_Accepted = <<>>)

\* An accepted attachment that is not a stored file leaves an empty list in
\* the document.
C18_EmptyStored ==
    /\ Done("ChildFileAttachmentsExtractor")
    /\ C18_Accepted # <<>> /\ C18_NoneQualifies
    /\ result = List(<<>>)
    /\ document[args.spec.key] = spec_encode(args.spec, List(<<>>))

\* C14: a second extraction of the same item with the same library context
\* and spec on the same extractor instance returns a value equal to the first
\* and yields an equal document: for the extractors that keep nothing
\* between calls, extracting with the arguments of the completed call gives
\* its result and its document again; for a LanguageExtractor, so does the
\* second call made on the instance whose translation cache the first call
\* initialized.
C14_Idempotent ==
    /\ pc = "done" /\ op # "LanguageExtractor" =>
          \E r \in {Extract(op, args.self, args.item, args.library_context, args.spec)} :
              /\ r.value = result
              /\ r.self = args.self
              /\ extract_and_store(args.document, args.encode, r.value, args.spec) = document
    /\ pc = "again" => second.value = result /\ second.document = document

\* C14 witness: the first call loaded the French catalog and translated a
\* language name; the second call, served from the cache, stored the same.
C14_Witness ==
    /\ pc = "again" /\ op = "LanguageExtractor"
    /\ ~args.self.translations_initialized
    /\ lang.translations_initialized /\ lang.translations = "catalog"
    /\ result = List(<<Tuple(<<Str(<<"f", "r", "a">>),
                               Str(<<"f", "r", "a", "n", "c", "a", "i", "s">>)>>)>>)
    /\ second.value = result
    /\ second.document = document /\ args.spec.key \in DOMAIN document

\* The language part of an extractor's locale.
C17_Language(self) == Strip(Split(Replace(self.locale, "-", "_"), {"_"}, 1)[1])

\* The extractor's locale has no translation catalog.
C17_NoCatalog(self) == C17_Language(self) \notin CatalogLanguages

\* The languages the entries of the item's language field resolve to, when
\* the extractor normalizes.
C17_Resolved ==
    LET field == Get(Get(args.item, "data", EmptyDict), "language", Str(<<>>)).v
        entries == Split(field, {";"}, -1)
    IN  IF args.self.normalize
        THEN {MatchLanguage(Strip(entries[i])) : i \in DOMAIN entries} \ {NoMatch}
        ELSE {}

\* An extraction on an extractor without a catalog: a warning is logged at
\* most once, only by the call that attempts the load (the first to resolve a
\* language), and every resolved language is labelled with its own name.
C17_Extraction ==
    pc \in {"done", "again"} /\ op = "LanguageExtractor" /\ C17_NoCatalog(args.self) =>
        LET first_load == /\ ~args.self.translations_initialized
                          /\ C17_Language(args.self) # <<"e", "n">>
                          /\ C17_Resolved # {}
        IN  /\ Len(log) = IF first_load THEN 1 ELSE 0
            /\ pc = "again" => second.log = <<>> \/ (log = <<>> /\ Len(second.log) = 1)
            /\ lang.translations = "None"
            /\ C17_Resolved # {} => lang.translations_initialized
            /\ \A l \in C17_Resolved :
                  \E i \in DOMAIN result.v :
                      result.v[i] = Tuple(<<Str(l.alpha_3), Str(l.name)>>)
            /\ pc = "again" => second.value = result

\* Once the load has been attempted, it is never attempted again: the flag
\* stays set and the translations stay what they are.
C17_NoSecondLoad ==
    lang.translations_initialized =>
        lang'.translations_initialized /\ lang'.translations = lang.translations

\* C17: over any sequence of extractions on one LanguageExtractor whose
\* locale has no translation catalog, the catalog load is attempted at most
\* once, the missing-locale warning is logged at most once (on the first
\* resolved language), and every resolved language of every extraction is
\* labelled with its untranslated name.
C17_LoadedOnce == [](C17_Extraction) /\ [][C17_NoSecondLoad]_vars

\* C17 witness: a later extraction on an extractor that already warned about
\* its locale resolves a language, labels it untranslated and logs nothing.
C17_Witness ==
    /\ Done("LanguageExtractor")
    /\ args.self.locale = <<"x", "x">>
    /\ args.self.translations_initialized
    /\ result = List(<<Tuple(<<Str(<<"f", "r", "a">>),
                               Str(<<"F", "r", "e", "n", "c", "h">>)>>)>>)
    /\ log = <<>>
    /\ args.spec.key \in DOMAIN document

=============================================================================
